---------------------------- MODULE Spec2Model ----------------------------
(***************************************************************************)
(* Model of bdn::ThreadPool and ThreadPool::PoolRunner                     *)
(* (framework/foundation/src/ThreadPool.cpp).                              *)
(*                                                                         *)
(* The pool operations addJob and runnerFinishedJob run under the pool     *)
(* mutex and are one action each.  The destructor holds the pool mutex for *)
(* its whole body but signals the runners one after the other, while the   *)
(* runner threads keep running: it is one action per signalStop call.      *)
(* PoolRunner::run is one action per statement that reads or writes state  *)
(* another thread can see.  The section of the loop that runs under the    *)
(* runner mutex (lines 185-199) is one action, as are startJob and         *)
(* signalStop, which hold the same mutex.                                  *)
(***************************************************************************)
EXTENDS Integers, Sequences, FiniteSets, TLC

\* ------------------------------------------------------------- bounds

\* Jobs handed to addJob during one behaviour.
MaxJobs == 4

\* PoolRunner objects created during one behaviour.
MaxRunners == 3

\* Largest constructor argument tried.
MaxThreadArg == 2

Jobs == 1 .. MaxJobs

Runners == 1 .. MaxRunners

\* _job == nullptr
NoJob == 0

\* The thread that owns the pool from outside (not a runner thread).
Owner == 0

\* No thread is inside ~ThreadPool.
NoThread == -1

\* A thread that holds a reference to the pool and calls its getters.
Observer == -2

\* No getter has returned yet.
NoValue == -1

VARIABLES
    minThreadCount,   \* ThreadPool::_minThreadCount
    maxThreadCount,   \* ThreadPool::_maxThreadCount
    poolState,        \* "unconstructed", "invalid", "alive", "dtorIdle", "dtorBusy", "destroyed"
    idleRunners,      \* ThreadPool::_idleRunners, a list
    busyRunners,      \* ThreadPool::_busyRunners, a set
    queuedJobs,       \* ThreadPool::_queuedJobs, a list
    ownerRef,         \* a strong reference to the pool is held outside the pool
    strongRef,        \* runners whose local `pool` (line 226) holds a strong reference
    dtorThread,       \* the thread executing ~ThreadPool: Owner, a runner, or NoThread
    dtorIdx,          \* position of the loop of line 32 in _idleRunners
    dtorSignalled,    \* busy runners the loop of line 53 has visited
    idleSignalled,    \* idle runners the loop of line 32 has visited
    pc,               \* position of each runner's thread
    job,              \* PoolRunner::_job
    shouldStop,       \* PoolRunner::_shouldStop
    wakeSignal,       \* PoolRunner::_wakeSignal
    verdict,          \* how runnerFinishedJob ended: "continue", "terminate", "threw"
    caught,           \* history (FaultSpec): this pass of the loop went through the catch of line 204
    nextJob,          \* the next job a caller submits
    nextRunner,       \* the next PoolRunner newObj creates
    submitOutcome,    \* per job: "none", "returned" (addJob returned), "threw"
    started,          \* per job: number of times run() was entered
    returned,         \* jobs whose run() has returned or thrown
    stopRequested,    \* jobs whose signalStop() was called
    stopAfterReturn,  \* jobs whose signalStop() was called after run() had returned
    threadFailed,     \* jobs whose addJob failed to start the thread
    enqueued,         \* history: jobs in the order they were pushed on _queuedJobs
    dequeued,         \* history: jobs in the order they were popped from _queuedJobs
    programmingError, \* runners on which startJob or the wake-up check raised ProgrammingError
    processAlive,     \* FALSE after std::terminate()
    poolMutex,        \* LockSpec: the thread holding ThreadPool::_mutex, or NoThread
    callerPc,         \* LockSpec: position of the calling thread inside addJob
    observerPc,       \* LockSpec: position of the observing thread inside a getter
    observed,         \* LockSpec: what the last getter call returned, NoValue before
    runnerMutex       \* OrderSpec: the thread holding each PoolRunner::_mutex, NoThread when free

poolVars == <<minThreadCount, maxThreadCount, poolState, idleRunners, busyRunners, queuedJobs>>

refVars == <<ownerRef, strongRef>>

dtorVars == <<dtorThread, dtorIdx, dtorSignalled, idleSignalled>>

runnerVars == <<pc, job, shouldStop, wakeSignal, verdict, caught>>

jobVars == <<started, returned, stopRequested, stopAfterReturn>>

callerVars == <<nextJob, nextRunner, submitOutcome, threadFailed>>

histVars == <<enqueued, dequeued, programmingError, processAlive>>

lockVars == <<poolMutex, callerPc, observerPc, observed, runnerMutex>>

vars == <<poolVars, refVars, dtorVars, runnerVars, jobVars, callerVars, histVars, lockVars>>

\* --------------------------------------------------------- construction

\* Mutant: the test of line 17 lets a maxThreadCount of 0 through.
ValidArgsZeroMax(minT, maxT) ==
    /\ ~(minT < 0)
    /\ ~(maxT < 0)
    /\ ~(maxT < minT)

\* The checks of the constructor: which argument pairs it accepts.
ValidArgs(minT, maxT) ==
    /\ ~(minT < 0)
    /\ ~(maxT <= 0)
    /\ ~(maxT < minT)

Init ==
    /\ minThreadCount \in -1 .. MaxThreadArg
    /\ maxThreadCount \in -1 .. MaxThreadArg
    /\ poolState = "unconstructed"
    /\ idleRunners = <<>>
    /\ busyRunners = {}
    /\ queuedJobs = <<>>
    /\ ownerRef = FALSE
    /\ strongRef = {}
    /\ dtorThread = NoThread
    /\ dtorIdx = 1
    /\ dtorSignalled = {}
    /\ idleSignalled = {}
    /\ pc = [r \in Runners |-> "unborn"]
    /\ job = [r \in Runners |-> NoJob]
    /\ shouldStop = [r \in Runners |-> FALSE]
    /\ wakeSignal = [r \in Runners |-> FALSE]
    /\ verdict = [r \in Runners |-> "continue"]
    /\ caught = [r \in Runners |-> FALSE]
    /\ nextJob = 1
    /\ nextRunner = 1
    /\ submitOutcome = [j \in Jobs |-> "none"]
    /\ started = [j \in Jobs |-> 0]
    /\ returned = {}
    /\ stopRequested = {}
    /\ stopAfterReturn = {}
    /\ threadFailed = {}
    /\ enqueued = <<>>
    /\ dequeued = <<>>
    /\ programmingError = {}
    /\ processAlive = TRUE
    /\ poolMutex = NoThread
    /\ callerPc = "out"
    /\ observerPc = "out"
    /\ observed = NoValue
    /\ runnerMutex = [r \in Runners |-> NoThread]

\* ThreadPool::ThreadPool: throws InvalidArgumentError for a bad pair, and
\* otherwise leaves an empty pool that its creator holds a reference to.
Construct ==
    /\ processAlive
    /\ poolState = "unconstructed"
    /\ IF ValidArgs(minThreadCount, maxThreadCount)
       THEN /\ poolState' = "alive"
            /\ ownerRef' = TRUE
       ELSE /\ poolState' = "invalid"
            /\ ownerRef' = FALSE
    /\ UNCHANGED <<minThreadCount, maxThreadCount, idleRunners, busyRunners, queuedJobs,
                   strongRef, dtorVars, runnerVars, jobVars, callerVars, histVars>>
    /\ UNCHANGED lockVars

\* ----------------------------------------------------------- PoolRunner

\* Mutant: startJob stores the job and does not set the wake signal.
startJobNoWake(r, j) ==
    IF job[r] # NoJob
    THEN /\ programmingError' = programmingError \cup {r}
         /\ UNCHANGED <<job, wakeSignal>>
    ELSE /\ job' = [job EXCEPT ![r] = j]
         /\ UNCHANGED <<wakeSignal, programmingError>>

\* Mutant: signalStop sets the flag and the wake signal and does not forward
\* the cancellation to the job.
signalStopNoForward(r) ==
    /\ shouldStop' = [shouldStop EXCEPT ![r] = TRUE]
    /\ UNCHANGED <<stopRequested, stopAfterReturn>>
    /\ wakeSignal' = [wakeSignal EXCEPT ![r] = TRUE]

\* Mutant: signalStop sets the flag, forwards the cancellation and does not
\* set the wake signal.
signalStopNoWake(r) ==
    /\ shouldStop' = [shouldStop EXCEPT ![r] = TRUE]
    /\ IF job[r] # NoJob
       THEN /\ stopRequested' = stopRequested \cup {job[r]}
            /\ stopAfterReturn' = IF job[r] \in returned
                                  THEN stopAfterReturn \cup {job[r]}
                                  ELSE stopAfterReturn
       ELSE UNCHANGED <<stopRequested, stopAfterReturn>>
    /\ UNCHANGED wakeSignal

\* The guard of PoolRunner::startJob: it throws ProgrammingError.
StartJobThrows(r) == job[r] # NoJob

\* Mutant: startJob without the test of line 171: the job held is replaced.
startJobOverwrites(r, j) ==
    /\ job' = [job EXCEPT ![r] = j]
    /\ wakeSignal' = [wakeSignal EXCEPT ![r] = TRUE]
    /\ UNCHANGED programmingError

\* PoolRunner::startJob(j) on runner r, under the runner mutex.
startJob(r, j) ==
    IF StartJobThrows(r)
    THEN /\ programmingError' = programmingError \cup {r}
         /\ UNCHANGED <<job, wakeSignal>>
    ELSE /\ job' = [job EXCEPT ![r] = j]
         /\ wakeSignal' = [wakeSignal EXCEPT ![r] = TRUE]
         /\ UNCHANGED programmingError

\* PoolRunner::signalStop on runner r: the flag and the forwarded
\* cancellation under the runner mutex, then the wake signal.
signalStop(r) ==
    /\ shouldStop' = [shouldStop EXCEPT ![r] = TRUE]
    /\ IF job[r] # NoJob
       THEN /\ stopRequested' = stopRequested \cup {job[r]}
            /\ stopAfterReturn' = IF job[r] \in returned
                                  THEN stopAfterReturn \cup {job[r]}
                                  ELSE stopAfterReturn
       ELSE UNCHANGED <<stopRequested, stopAfterReturn>>
    /\ wakeSignal' = [wakeSignal EXCEPT ![r] = TRUE]

\* A runner thread can take a step: the process runs and the thread is not
\* the one inside ~ThreadPool.
CanStep(r) == processAlive /\ dtorThread # r

\* PoolRunner::run, lines 183-199: _wakeSignal.wait() returns, and under
\* the runner mutex the signal is cleared and the stop flag and the job
\* are looked at.
RunWake(r) ==
    /\ CanStep(r)
    /\ pc[r] = "wait"
    /\ wakeSignal[r]
    /\ wakeSignal' = [wakeSignal EXCEPT ![r] = FALSE]
    /\ IF shouldStop[r]
       THEN /\ pc' = [pc EXCEPT ![r] = "done"]
            /\ UNCHANGED programmingError
       ELSE IF job[r] = NoJob
            THEN /\ pc' = [pc EXCEPT ![r] = "error"]
                 /\ programmingError' = programmingError \cup {r}
            ELSE /\ pc' = [pc EXCEPT ![r] = "run"]
                 /\ UNCHANGED programmingError
    /\ UNCHANGED <<poolVars, refVars, dtorVars, job, shouldStop, verdict, caught, jobVars,
                   callerVars, enqueued, dequeued, processAlive>>
    /\ UNCHANGED lockVars

\* Line 202: _job->run() is entered.
RunJobBegin(r) ==
    /\ CanStep(r)
    /\ pc[r] = "run"
    /\ pc' = [pc EXCEPT ![r] = "running"]
    /\ started' = [started EXCEPT ![job[r]] = @ + 1]
    /\ UNCHANGED <<poolVars, refVars, dtorVars, job, shouldStop, wakeSignal, verdict, caught,
                   returned, stopRequested, stopAfterReturn, callerVars, histVars>>
    /\ UNCHANGED lockVars

\* Mutant: run() is called without the try block of line 201, so that an
\* exception leaves the loop and the thread function.
RunJobEndUnguarded(r, throws, keepRunning) ==
    /\ CanStep(r)
    /\ pc[r] = "running"
    /\ returned' = returned \cup {job[r]}
    /\ pc' = [pc EXCEPT ![r] = IF throws THEN "error" ELSE "clear"]
    /\ UNCHANGED <<poolVars, refVars, dtorVars, job, shouldStop, wakeSignal, verdict,
                   started, stopRequested, stopAfterReturn, callerVars,
                   enqueued, dequeued, programmingError, processAlive>>
    /\ UNCHANGED lockVars

\* Lines 201-211: _job->run() returns, or throws; a thrown exception goes to
\* bdn::unhandledException(true), and std::terminate() follows when that
\* returns false.  The history variable caught is set by the action using
\* this step.
RunJobEndWith(r, throws, keepRunning) ==
    /\ CanStep(r)
    /\ pc[r] = "running"
    /\ returned' = returned \cup {job[r]}
    /\ IF throws /\ ~keepRunning
       THEN /\ processAlive' = FALSE
            /\ UNCHANGED pc
       ELSE /\ pc' = [pc EXCEPT ![r] = "clear"]
            /\ UNCHANGED processAlive
    /\ UNCHANGED <<poolVars, refVars, dtorVars, job, shouldStop, wakeSignal, verdict,
                   started, stopRequested, stopAfterReturn, callerVars,
                   enqueued, dequeued, programmingError>>
    /\ UNCHANGED lockVars

\* Mutant: the runner goes on to report completion with _job still set.
RunClearJobKeeps(r, throws, keepRunning) ==
    /\ CanStep(r)
    /\ pc[r] = "clear"
    /\ IF throws /\ ~keepRunning
       THEN /\ processAlive' = FALSE
            /\ UNCHANGED pc
       ELSE /\ pc' = [pc EXCEPT ![r] = "report"]
            /\ UNCHANGED processAlive
    /\ UNCHANGED <<poolVars, refVars, dtorVars, job, shouldStop, wakeSignal, verdict, caught,
                   jobVars, callerVars, enqueued, dequeued, programmingError>>
    /\ UNCHANGED lockVars

\* Lines 213-224: _job = nullptr, outside the runner mutex.  When the
\* runnable's destructor throws, unhandledException decides as above and the
\* pointer is detached: _job is null either way.
RunClearJobWith(r, throws, keepRunning) ==
    /\ CanStep(r)
    /\ pc[r] = "clear"
    /\ IF throws /\ ~keepRunning
       THEN /\ processAlive' = FALSE
            /\ UNCHANGED <<pc, job>>
       ELSE /\ job' = [job EXCEPT ![r] = NoJob]
            /\ pc' = [pc EXCEPT ![r] = "report"]
            /\ UNCHANGED processAlive
    /\ UNCHANGED <<poolVars, refVars, dtorVars, shouldStop, wakeSignal, verdict, caught,
                   jobVars, callerVars, enqueued, dequeued, programmingError>>
    /\ UNCHANGED lockVars

\* The job's outcome and the answer of unhandledException are the caller's
\* and the application's: any of them can happen.
RunJobEnd(r) ==
    \E throws \in BOOLEAN, keepRunning \in BOOLEAN :
        RunJobEndWith(r, throws, keepRunning) /\ UNCHANGED caught

\* The same step, recording in caught whether run() threw.
RunJobEndTraced(r) ==
    \E throws \in BOOLEAN, keepRunning \in BOOLEAN :
        RunJobEndWith(r, throws, keepRunning) /\ caught' = [caught EXCEPT ![r] = throws]

RunClearJob(r) ==
    \E throws \in BOOLEAN, keepRunning \in BOOLEAN : RunClearJobWith(r, throws, keepRunning)

\* _poolWeak.toStrong() yields a pool: the pool's destructor has not begun.
toStrong == poolState = "alive"

\* Mutant: the runner reports to the pool without looking whether the pool
\* still exists.
RunToStrongUnchecked(r) ==
    /\ CanStep(r)
    /\ pc[r] = "report"
    /\ strongRef' = strongRef \cup {r}
    /\ pc' = [pc EXCEPT ![r] = "finish"]
    /\ UNCHANGED <<poolVars, ownerRef, dtorVars, job, shouldStop, wakeSignal, verdict, caught,
                   jobVars, callerVars, histVars>>
    /\ UNCHANGED lockVars

\* Lines 226-228: the runner takes a strong reference to the pool, or finds
\* the pool deleted and leaves the loop.
RunToStrong(r) ==
    /\ CanStep(r)
    /\ pc[r] = "report"
    /\ IF toStrong
       THEN /\ strongRef' = strongRef \cup {r}
            /\ pc' = [pc EXCEPT ![r] = "finish"]
            /\ UNCHANGED caught
       ELSE /\ pc' = [pc EXCEPT ![r] = "done"]
            /\ caught' = [caught EXCEPT ![r] = FALSE]
            /\ UNCHANGED strongRef
    /\ UNCHANGED <<poolVars, ownerRef, dtorVars, job, shouldStop, wakeSignal, verdict,
                   jobVars, callerVars, histVars>>
    /\ UNCHANGED lockVars


\* A runner that clears its wake signal when it goes back to waiting, as if
\* _wakeSignal.clear() of line 188 came before _wakeSignal.wait(): a signal
\* set between the pool's verdict and the wait is forgotten.
RunReleasePoolForgetsSignal(r) ==
    /\ CanStep(r)
    /\ pc[r] = "release"
    /\ strongRef' = strongRef \ {r}
    /\ caught' = [caught EXCEPT ![r] = FALSE]
    /\ wakeSignal' = [wakeSignal EXCEPT ![r] = FALSE]
    /\ pc' = [pc EXCEPT ![r] = CASE verdict[r] = "continue" -> "wait"
                                 [] verdict[r] = "terminate" -> "done"
                                 [] OTHER -> "error"]
    /\ IF ~ownerRef /\ strongRef \ {r} = {}
       THEN /\ poolState' = "dtorIdle"
            /\ dtorThread' = r
            /\ dtorIdx' = 1
            /\ dtorSignalled' = {}
            /\ idleSignalled' = {}
       ELSE UNCHANGED <<poolState, dtorVars>>
    /\ UNCHANGED <<minThreadCount, maxThreadCount, idleRunners, busyRunners, queuedJobs,
                   ownerRef, job, shouldStop, verdict, jobVars, callerVars,
                   histVars>>
    /\ UNCHANGED lockVars

\* The local `pool` of line 226 goes out of scope, which ends this pass
\* through the loop body: at the end of the loop
\* body, at the break of line 233, or when an exception leaves the loop.
\* The last reference released runs ~ThreadPool on this thread.
RunReleasePool(r) ==
    /\ CanStep(r)
    /\ pc[r] = "release"
    /\ strongRef' = strongRef \ {r}
    /\ caught' = [caught EXCEPT ![r] = FALSE]
    /\ pc' = [pc EXCEPT ![r] = CASE verdict[r] = "continue" -> "wait"
                                 [] verdict[r] = "terminate" -> "done"
                                 [] OTHER -> "error"]
    /\ IF ~ownerRef /\ strongRef \ {r} = {}
       THEN /\ poolState' = "dtorIdle"
            /\ dtorThread' = r
            /\ dtorIdx' = 1
            /\ dtorSignalled' = {}
            /\ idleSignalled' = {}
       ELSE UNCHANGED <<poolState, dtorVars>>
    /\ UNCHANGED <<minThreadCount, maxThreadCount, idleRunners, busyRunners, queuedJobs,
                   ownerRef, job, shouldStop, wakeSignal, verdict, jobVars, callerVars,
                   histVars>>
    /\ UNCHANGED lockVars

\* ----------------------------------------------------------- ThreadPool

\* Mutant: pop_back in place of pop_front.
PopBack(q) == SubSeq(q, 1, Len(q) - 1)

\* Mutant: the job is put at the front of the queue.
PushFront(q, j) == <<j>> \o q

\* _queuedJobs.push_back(j)
PushBack(q, j) == Append(q, j)

\* Mutant: the front element is read and left in the list.
PopFrontKeeps(q) == q

\* _queuedJobs.pop_front() / _idleRunners.pop_front()
PopFront(q) == Tail(q)

\* Mutant: the queue is not looked at when a runner reports.
HasQueuedJobNever == FALSE

\* Line 65: !_queuedJobs.empty()
HasQueuedJob == queuedJobs # <<>>

\* Mutant: the test of line 81 is missing, every runner is kept as idle.
RunnerIsSurplusNever(busy) == FALSE

\* Mutant: the comparison of line 81 is strict.
RunnerIsSurplusStrict(busy) == Cardinality(busy) > minThreadCount

\* Line 81: the pool has more threads than necessary once runner r is gone.
RunnerIsSurplus(busy) == Cardinality(busy) >= minThreadCount

\* Mutant: the pool never considers itself saturated and starts a thread for
\* every job that finds no idle runner.
PoolSaturatedNever == FALSE

\* Mutant: the comparison with the ceiling is off by one.
PoolSaturatedOffByOne == Cardinality(busyRunners) > maxThreadCount

\* Line 103: no further thread can be started.
PoolSaturated == Cardinality(busyRunners) >= maxThreadCount

\* Mutant: the catch block leaves the runner in _busyRunners.
RollBackMissing(busy, r) == busy

\* Line 121: the catch block's _busyRunners.erase(runner).
RollBack(busy, r) == busy \ {r}

\* A pool that tells a surplus runner to terminate and still files it under
\* idleRunners.
runnerFinishedJobKeepsSurplus(r) ==
    /\ CanStep(r)
    /\ pc[r] = "finish"
    /\ pc' = [pc EXCEPT ![r] = "release"]
    /\ IF HasQueuedJob
       THEN /\ queuedJobs' = PopFront(queuedJobs)
            /\ dequeued' = Append(dequeued, Head(queuedJobs))
            /\ startJob(r, Head(queuedJobs))
            /\ verdict' = [verdict EXCEPT ![r] = IF StartJobThrows(r) THEN "threw"
                                                  ELSE "continue"]
            /\ UNCHANGED <<idleRunners, busyRunners>>
       ELSE /\ busyRunners' = busyRunners \ {r}
            /\ idleRunners' = Append(idleRunners, r)
            /\ verdict' = [verdict EXCEPT ![r] = IF RunnerIsSurplus(busyRunners \ {r})
                                                  THEN "terminate" ELSE "continue"]
            /\ UNCHANGED <<queuedJobs, dequeued, job, wakeSignal, programmingError>>
    /\ UNCHANGED <<minThreadCount, maxThreadCount, poolState, refVars, dtorVars,
                   shouldStop, caught, jobVars, callerVars, enqueued, processAlive>>
    /\ UNCHANGED lockVars

\* ThreadPool::runnerFinishedJob(r), under the pool mutex.  The runner calls
\* it through the strong reference it took at line 226.
runnerFinishedJob(r) ==
    /\ CanStep(r)
    /\ pc[r] = "finish"
    /\ pc' = [pc EXCEPT ![r] = "release"]
    /\ IF HasQueuedJob
       THEN /\ queuedJobs' = PopFront(queuedJobs)
            /\ dequeued' = Append(dequeued, Head(queuedJobs))
            /\ startJob(r, Head(queuedJobs))
            /\ verdict' = [verdict EXCEPT ![r] = IF StartJobThrows(r) THEN "threw"
                                                  ELSE "continue"]
            /\ UNCHANGED <<idleRunners, busyRunners>>
       ELSE /\ busyRunners' = busyRunners \ {r}
            /\ IF RunnerIsSurplus(busyRunners \ {r})
               THEN /\ verdict' = [verdict EXCEPT ![r] = "terminate"]
                    /\ UNCHANGED idleRunners
               ELSE /\ idleRunners' = Append(idleRunners, r)
                    /\ verdict' = [verdict EXCEPT ![r] = "continue"]
            /\ UNCHANGED <<queuedJobs, dequeued, job, wakeSignal, programmingError>>
    /\ UNCHANGED <<minThreadCount, maxThreadCount, poolState, refVars, dtorVars,
                   shouldStop, caught, jobVars, callerVars, enqueued, processAlive>>
    /\ UNCHANGED lockVars

\* ThreadPool::addJob(nextJob), under the pool mutex, called by a thread that
\* holds a reference to the pool.  Thread creation (line 115) succeeds or
\* throws; the catch block of line 118 swallows the exception, so addJob
\* returns normally either way.  It throws only when startJob does.
addJobWith(threadOk) ==
    /\ processAlive
    /\ ownerRef
    /\ nextJob <= MaxJobs
    /\ nextJob' = nextJob + 1
    /\ IF idleRunners = <<>>
       THEN IF PoolSaturated
            THEN /\ queuedJobs' = PushBack(queuedJobs, nextJob)
                 /\ enqueued' = Append(enqueued, nextJob)
                 /\ submitOutcome' = [submitOutcome EXCEPT ![nextJob] = "returned"]
                 /\ UNCHANGED <<idleRunners, busyRunners, pc, job, wakeSignal, nextRunner,
                                threadFailed, programmingError>>
            ELSE /\ nextRunner <= MaxRunners
                 /\ nextRunner' = nextRunner + 1
                 /\ startJob(nextRunner, nextJob)
                 /\ submitOutcome' = [submitOutcome EXCEPT ![nextJob] =
                                         IF StartJobThrows(nextRunner) THEN "threw"
                                         ELSE "returned"]
                 /\ IF threadOk
                    THEN /\ busyRunners' = busyRunners \cup {nextRunner}
                         /\ pc' = [pc EXCEPT ![nextRunner] = "wait"]
                         /\ UNCHANGED threadFailed
                    ELSE /\ busyRunners' = RollBack(busyRunners \cup {nextRunner},
                                                    nextRunner)
                         /\ pc' = [pc EXCEPT ![nextRunner] = "nothread"]
                         /\ threadFailed' = threadFailed \cup {nextJob}
                 /\ UNCHANGED <<idleRunners, queuedJobs, enqueued>>
       ELSE /\ idleRunners' = PopFront(idleRunners)
            /\ busyRunners' = busyRunners \cup {Head(idleRunners)}
            /\ startJob(Head(idleRunners), nextJob)
            /\ submitOutcome' = [submitOutcome EXCEPT ![nextJob] =
                                    IF StartJobThrows(Head(idleRunners)) THEN "threw"
                                    ELSE "returned"]
            /\ UNCHANGED <<queuedJobs, enqueued, pc, nextRunner, threadFailed>>
    /\ UNCHANGED <<minThreadCount, maxThreadCount, poolState, refVars, dtorVars,
                   shouldStop, verdict, caught, jobVars, dequeued, processAlive>>
    /\ UNCHANGED lockVars

\* Mutant: with every permitted runner busy, addJob waits for one to be free
\* before it returns.
addJobWaitsForRunner ==
    /\ ~(idleRunners = <<>> /\ PoolSaturated)
    /\ \E threadOk \in BOOLEAN : addJobWith(threadOk)

\* Whether the thread can be created is the platform's answer.
addJob == \E threadOk \in BOOLEAN : addJobWith(threadOk)

\* ThreadPool::getBusyThreadCount(), under the pool mutex.
getBusyThreadCount == Cardinality(busyRunners)

\* ThreadPool::getIdleThreadCount(), under the pool mutex.
getIdleThreadCount == Len(idleRunners)

\* The last outside reference to the pool is dropped.  ~ThreadPool starts on
\* the owner's thread unless a runner still holds a strong reference.
ReleasePool ==
    /\ processAlive
    /\ ownerRef
    /\ ownerRef' = FALSE
    /\ IF strongRef = {}
       THEN /\ poolState' = "dtorIdle"
            /\ dtorThread' = Owner
            /\ dtorIdx' = 1
            /\ dtorSignalled' = {}
            /\ idleSignalled' = {}
       ELSE UNCHANGED <<poolState, dtorVars>>
    /\ UNCHANGED <<minThreadCount, maxThreadCount, idleRunners, busyRunners, queuedJobs,
                   strongRef, runnerVars, jobVars, callerVars, histVars>>
    /\ UNCHANGED lockVars

\* ~ThreadPool, lines 32-33: signalStop on the next idle runner.
DtorSignalIdle ==
    /\ processAlive
    /\ poolState = "dtorIdle"
    /\ dtorIdx <= Len(idleRunners)
    /\ signalStop(idleRunners[dtorIdx])
    /\ dtorIdx' = dtorIdx + 1
    /\ idleSignalled' = idleSignalled \cup {idleRunners[dtorIdx]}
    /\ UNCHANGED <<poolVars, refVars, dtorThread, dtorSignalled, pc, job, verdict, caught,
                   started, returned, callerVars, histVars>>
    /\ UNCHANGED lockVars

\* ~ThreadPool, line 37: _idleRunners.clear().
DtorClearIdle ==
    /\ processAlive
    /\ poolState = "dtorIdle"
    /\ dtorIdx > Len(idleRunners)
    /\ idleRunners' = <<>>
    /\ poolState' = "dtorBusy"
    /\ UNCHANGED <<minThreadCount, maxThreadCount, busyRunners, queuedJobs, refVars,
                   dtorVars, runnerVars, jobVars, callerVars, histVars>>
    /\ UNCHANGED lockVars

\* ~ThreadPool, lines 53-54: signalStop on a busy runner not yet visited.
\* The set is ordered by address, so the order is any order.
DtorSignalBusy(r) ==
    /\ processAlive
    /\ poolState = "dtorBusy"
    /\ r \in busyRunners \ dtorSignalled
    /\ signalStop(r)
    /\ dtorSignalled' = dtorSignalled \cup {r}
    /\ UNCHANGED <<poolVars, refVars, dtorThread, dtorIdx, idleSignalled, pc, job, verdict, caught,
                   started, returned, callerVars, histVars>>
    /\ UNCHANGED lockVars

\* Runner r's thread is about to access _job without the runner mutex: the
\* call of line 202 reads it, the assignment of line 214 writes it.
UnlockedJobRead(r) == CanStep(r) /\ pc[r] = "run"

UnlockedJobWrite(r) == CanStep(r) /\ pc[r] = "clear"

\* The thread inside ~ThreadPool, which is not r's, is about to call
\* signalStop on r: it reads _job at line 159, under the runner mutex.
SignalStopPending(r) ==
    /\ processAlive
    /\ dtorThread # r
    /\ \/ poolState = "dtorIdle" /\ dtorIdx <= Len(idleRunners) /\ idleRunners[dtorIdx] = r
       \/ poolState = "dtorBusy" /\ r \in busyRunners \ dtorSignalled

\* A caller's addJob is about to hand a job to r, the front idle runner: it
\* writes _job at line 175, under the runner mutex.
HandoffPending(r) ==
    /\ processAlive /\ ownerRef
    /\ idleRunners # <<>>
    /\ Head(idleRunners) = r

\* Two threads are about to access r's _job, one of them writing, without a
\* lock that both hold.
JobRace(r) ==
    \/ UnlockedJobWrite(r) /\ (SignalStopPending(r) \/ HandoffPending(r))
    \/ UnlockedJobRead(r) /\ HandoffPending(r)

\* The two accesses of a race overlap.  The behaviour is undefined: besides
\* the two orders of the accesses, which the other actions give, signalStop
\* can call into a job the runner has released, which ends the process.
SignalStopRace(r) ==
    /\ JobRace(r)
    /\ processAlive' = FALSE
    /\ UNCHANGED <<poolVars, refVars, dtorVars, runnerVars, jobVars, callerVars,
                   enqueued, dequeued, programmingError, lockVars>>

\* Mutant: the destructor joins the busy runners' jobs before it returns.
DtorEndJoins ==
    /\ processAlive
    /\ poolState = "dtorBusy"
    /\ busyRunners \subseteq dtorSignalled
    /\ \A r \in busyRunners : pc[r] # "running"
    /\ busyRunners' = {}
    /\ poolState' = "destroyed"
    /\ dtorThread' = NoThread
    /\ UNCHANGED <<minThreadCount, maxThreadCount, idleRunners, queuedJobs, refVars,
                   dtorIdx, dtorSignalled, idleSignalled, runnerVars, jobVars, callerVars,
                   histVars>>
    /\ UNCHANGED lockVars

\* ~ThreadPool, line 58 and the return: _busyRunners.clear().  The body
\* never touches _queuedJobs: what is queued stays unrun in the dead pool.
DtorEnd ==
    /\ processAlive
    /\ poolState = "dtorBusy"
    /\ busyRunners \subseteq dtorSignalled
    /\ busyRunners' = {}
    /\ poolState' = "destroyed"
    /\ dtorThread' = NoThread
    /\ UNCHANGED <<minThreadCount, maxThreadCount, idleRunners, queuedJobs, refVars,
                   dtorIdx, dtorSignalled, idleSignalled, runnerVars, jobVars, callerVars,
                   histVars>>
    /\ UNCHANGED lockVars

\* ------------------------------------------------------- specification

Next ==
    \/ Construct
    \/ addJob
    \/ ReleasePool
    \/ DtorSignalIdle
    \/ DtorClearIdle
    \/ \E r \in Runners : DtorSignalBusy(r)
    \/ \E r \in Runners : SignalStopRace(r)
    \/ DtorEnd
    \/ \E r \in Runners : RunWake(r)
    \/ \E r \in Runners : RunJobBegin(r)
    \/ \E r \in Runners : RunJobEnd(r)
    \/ \E r \in Runners : RunClearJob(r)
    \/ \E r \in Runners : RunToStrong(r)
    \/ \E r \in Runners : runnerFinishedJob(r)
    \/ \E r \in Runners : RunReleasePool(r)

Spec == Init /\ [][Next]_vars

\* One step of ~ThreadPool.
DtorStep ==
    \/ DtorSignalIdle
    \/ DtorClearIdle
    \/ \E r \in Runners : DtorSignalBusy(r)
    \/ DtorEnd

\* The thread inside ~ThreadPool is scheduled; nothing is assumed of the
\* runner threads or of the jobs, which may run forever.
ShutdownSpec == Init /\ [][Next]_vars /\ WF_vars(DtorStep)

\* PoolRunner::startJob called directly on a runner object, whatever the
\* runner holds: the function on its own, for any runner and any job.
StartJobCall ==
    /\ \E r \in Runners, j \in Jobs : startJob(r, j)
    /\ UNCHANGED <<poolVars, refVars, dtorVars, pc, shouldStop, verdict, caught, jobVars,
                   callerVars, enqueued, dequeued, processAlive>>
    /\ UNCHANGED lockVars

StartJobSpec == Init /\ [][StartJobCall]_vars

\* ------------------------------------------- the pool mutex made explicit
\*
\* LockSpec takes addJob, runnerFinishedJob and the getters in steps, with
\* ThreadPool::_mutex as a variable: each acquires the mutex on entry
\* (Mutex::Lock lock(_mutex)), changes the collections one statement at a
\* time, and releases it on return.  The pool is alive throughout: the
\* getters and addJob need a reference to it.

\* Mutant: the getter reads without taking the mutex.
LockFree(t) == poolMutex' = poolMutex

\* Mutex::Lock lock(_mutex) by thread t: waits until the mutex is free.
Lock(t) == poolMutex = NoThread /\ poolMutex' = t

\* The Mutex::Lock goes out of scope.
Unlock == poolMutex' = NoThread

\* Line 98: the caller enters addJob.
LockedAddJobEnter ==
    /\ processAlive /\ ownerRef
    /\ callerPc = "out"
    /\ nextJob <= MaxJobs
    /\ (idleRunners = <<>> /\ ~PoolSaturated) => nextRunner <= MaxRunners
    /\ Lock(Owner)
    /\ callerPc' = "locked"
    /\ UNCHANGED <<poolVars, refVars, dtorVars, runnerVars, jobVars, callerVars, histVars,
                   observerPc, observed>>
    /\ UNCHANGED runnerMutex

\* Lines 100-112 and 124-131: the job is queued or handed to the front idle
\* runner, which completes the call; or a runner is created, handed the job
\* and inserted in _busyRunners, its thread not yet started.
LockedAddJobBody ==
    /\ callerPc = "locked"
    /\ nextJob' = nextJob + 1
    /\ IF idleRunners = <<>>
       THEN IF PoolSaturated
            THEN /\ queuedJobs' = PushBack(queuedJobs, nextJob)
                 /\ enqueued' = Append(enqueued, nextJob)
                 /\ callerPc' = "unlock"
                 /\ UNCHANGED <<idleRunners, busyRunners, job, wakeSignal, nextRunner,
                                programmingError>>
            ELSE /\ nextRunner' = nextRunner + 1
                 /\ startJob(nextRunner, nextJob)
                 /\ busyRunners' = busyRunners \cup {nextRunner}
                 /\ callerPc' = "inserted"
                 /\ UNCHANGED <<idleRunners, queuedJobs, enqueued>>
       ELSE /\ idleRunners' = PopFront(idleRunners)
            /\ busyRunners' = busyRunners \cup {Head(idleRunners)}
            /\ startJob(Head(idleRunners), nextJob)
            /\ callerPc' = "unlock"
            /\ UNCHANGED <<queuedJobs, enqueued, nextRunner>>
    /\ UNCHANGED <<minThreadCount, maxThreadCount, poolState, refVars, dtorVars, pc,
                   shouldStop, verdict, caught, jobVars, submitOutcome, threadFailed,
                   dequeued, processAlive, poolMutex, observerPc, observed>>
    /\ UNCHANGED runnerMutex

\* Lines 114-122: the thread of the runner just inserted is started, or
\* cannot be and the runner is erased again.
LockedAddJobThread ==
    /\ callerPc = "inserted"
    /\ callerPc' = "unlock"
    /\ \E threadOk \in BOOLEAN :
          IF threadOk
          THEN /\ pc' = [pc EXCEPT ![nextRunner - 1] = "wait"]
               /\ UNCHANGED <<busyRunners, threadFailed>>
          ELSE /\ busyRunners' = RollBack(busyRunners, nextRunner - 1)
               /\ pc' = [pc EXCEPT ![nextRunner - 1] = "nothread"]
               /\ threadFailed' = threadFailed \cup {nextJob - 1}
    /\ UNCHANGED <<minThreadCount, maxThreadCount, poolState, idleRunners, queuedJobs,
                   refVars, dtorVars, job, shouldStop, wakeSignal, verdict, caught, jobVars,
                   nextJob, nextRunner, submitOutcome, histVars,
                   poolMutex, observerPc, observed>>
    /\ UNCHANGED runnerMutex

\* Line 133: addJob returns.
LockedAddJobLeave ==
    /\ callerPc = "unlock"
    /\ callerPc' = "out"
    /\ submitOutcome' = [submitOutcome EXCEPT ![nextJob - 1] = "returned"]
    /\ Unlock
    /\ UNCHANGED <<poolVars, refVars, dtorVars, runnerVars, jobVars, nextJob, nextRunner,
                   threadFailed, histVars, observerPc, observed>>
    /\ UNCHANGED runnerMutex

\* Line 63: runner r enters runnerFinishedJob.
LockedReportEnter(r) ==
    /\ CanStep(r)
    /\ pc[r] = "finish"
    /\ Lock(r)
    /\ pc' = [pc EXCEPT ![r] = "finishLocked"]
    /\ UNCHANGED <<poolVars, refVars, dtorVars, job, shouldStop, wakeSignal, verdict, caught,
                   jobVars, callerVars, histVars, callerPc, observerPc, observed>>
    /\ UNCHANGED runnerMutex

\* Lines 65-79: the front queued job is handed to the runner, which
\* completes the call; or the runner is erased from _busyRunners.
LockedReportBody(r) ==
    /\ pc[r] = "finishLocked"
    /\ IF HasQueuedJob
       THEN /\ queuedJobs' = PopFront(queuedJobs)
            /\ dequeued' = Append(dequeued, Head(queuedJobs))
            /\ startJob(r, Head(queuedJobs))
            /\ verdict' = [verdict EXCEPT ![r] = "continue"]
            /\ pc' = [pc EXCEPT ![r] = "finishUnlock"]
            /\ UNCHANGED busyRunners
       ELSE /\ busyRunners' = busyRunners \ {r}
            /\ pc' = [pc EXCEPT ![r] = "finishErased"]
            /\ UNCHANGED <<queuedJobs, dequeued, job, wakeSignal, programmingError, verdict>>
    /\ UNCHANGED <<minThreadCount, maxThreadCount, poolState, idleRunners, refVars, dtorVars,
                   shouldStop, caught, jobVars, callerVars, enqueued, processAlive, lockVars>>

\* Lines 81-90: the erased runner is surplus, or is pushed on _idleRunners.
LockedReportIdle(r) ==
    /\ pc[r] = "finishErased"
    /\ pc' = [pc EXCEPT ![r] = "finishUnlock"]
    /\ IF RunnerIsSurplus(busyRunners)
       THEN /\ verdict' = [verdict EXCEPT ![r] = "terminate"]
            /\ UNCHANGED idleRunners
       ELSE /\ idleRunners' = Append(idleRunners, r)
            /\ verdict' = [verdict EXCEPT ![r] = "continue"]
    /\ UNCHANGED <<minThreadCount, maxThreadCount, poolState, busyRunners, queuedJobs,
                   refVars, dtorVars, job, shouldStop, wakeSignal, caught, jobVars,
                   callerVars, histVars, lockVars>>

\* Lines 75, 83, 89: runnerFinishedJob returns.
LockedReportLeave(r) ==
    /\ pc[r] = "finishUnlock"
    /\ pc' = [pc EXCEPT ![r] = "release"]
    /\ Unlock
    /\ UNCHANGED <<poolVars, refVars, dtorVars, job, shouldStop, wakeSignal, verdict, caught,
                   jobVars, callerVars, histVars, callerPc, observerPc, observed>>
    /\ UNCHANGED runnerMutex

\* Lines 137 and 144: a thread holding a reference enters a getter.
GetterLock(t) == Lock(t)

\* Line 137: getBusyThreadCount is entered.
GetBusyEnter ==
    /\ processAlive /\ ownerRef
    /\ observerPc = "out"
    /\ GetterLock(Observer)
    /\ observerPc' = "busy"
    /\ observed' = NoValue
    /\ UNCHANGED <<poolVars, refVars, dtorVars, runnerVars, jobVars, callerVars, histVars,
                   callerPc>>
    /\ UNCHANGED runnerMutex

\* Line 139: getBusyThreadCount returns the size of _busyRunners.
GetBusyReturn ==
    /\ observerPc = "busy"
    /\ observed' = getBusyThreadCount
    /\ observerPc' = "out"
    /\ Unlock
    /\ UNCHANGED <<poolVars, refVars, dtorVars, runnerVars, jobVars, callerVars, histVars,
                   callerPc>>
    /\ UNCHANGED runnerMutex

\* Line 144: getIdleThreadCount is entered.
GetIdleEnter ==
    /\ processAlive /\ ownerRef
    /\ observerPc = "out"
    /\ GetterLock(Observer)
    /\ observerPc' = "idle"
    /\ observed' = NoValue
    /\ UNCHANGED <<poolVars, refVars, dtorVars, runnerVars, jobVars, callerVars, histVars,
                   callerPc>>
    /\ UNCHANGED runnerMutex

\* Line 146: getIdleThreadCount returns the size of _idleRunners.
GetIdleReturn ==
    /\ observerPc = "idle"
    /\ observed' = getIdleThreadCount
    /\ observerPc' = "out"
    /\ Unlock
    /\ UNCHANGED <<poolVars, refVars, dtorVars, runnerVars, jobVars, callerVars, histVars,
                   callerPc>>
    /\ UNCHANGED runnerMutex

\* The living pool with its mutex explicit; every run() returns normally.
LockNext ==
    \/ Construct
    \/ LockedAddJobEnter
    \/ LockedAddJobBody
    \/ LockedAddJobThread
    \/ LockedAddJobLeave
    \/ GetBusyEnter
    \/ GetBusyReturn
    \/ GetIdleEnter
    \/ GetIdleReturn
    \/ \E r \in Runners : RunWake(r)
    \/ \E r \in Runners : RunJobBegin(r)
    \/ \E r \in Runners : RunJobEndWith(r, FALSE, TRUE) /\ UNCHANGED caught
    \/ \E r \in Runners : RunClearJobWith(r, FALSE, TRUE)
    \/ \E r \in Runners : RunToStrong(r)
    \/ \E r \in Runners : LockedReportEnter(r)
    \/ \E r \in Runners : LockedReportBody(r)
    \/ \E r \in Runners : LockedReportIdle(r)
    \/ \E r \in Runners : LockedReportLeave(r)
    \/ \E r \in Runners : RunReleasePool(r)

LockSpec == Init /\ [][LockNext]_vars

\* The program with the history variable caught recorded: the steps of Next,
\* the end of run() taken in its recording form.
FaultNext ==
    \/ Construct
    \/ addJob
    \/ ReleasePool
    \/ DtorSignalIdle
    \/ DtorClearIdle
    \/ \E r \in Runners : DtorSignalBusy(r)
    \/ \E r \in Runners : SignalStopRace(r)
    \/ DtorEnd
    \/ \E r \in Runners : RunWake(r)
    \/ \E r \in Runners : RunJobBegin(r)
    \/ \E r \in Runners : RunJobEndTraced(r)
    \/ \E r \in Runners : RunClearJob(r)
    \/ \E r \in Runners : RunToStrong(r)
    \/ \E r \in Runners : runnerFinishedJob(r)
    \/ \E r \in Runners : RunReleasePool(r)

FaultSpec == Init /\ [][FaultNext]_vars

\* The thread inside ~ThreadPool is scheduled, and so is a runner thread
\* whose wait on its wake signal can return; nothing is assumed of the jobs.
StopSpec ==
    Init /\ [][Next]_vars /\ WF_vars(DtorStep) /\ \A r \in Runners : WF_vars(RunWake(r))

\* One step of runner r's thread when every run() returns and no exception
\* ends the process.
RunnerStep(r) ==
    \/ RunWake(r)
    \/ RunJobBegin(r)
    \/ \E throws \in BOOLEAN : RunJobEndWith(r, throws, TRUE) /\ UNCHANGED caught
    \/ RunClearJobWith(r, FALSE, TRUE)
    \/ RunToStrong(r)
    \/ runnerFinishedJob(r)
    \/ RunReleasePool(r)

\* The pool is never destroyed, every thread can be created, every run()
\* returns, and the runner threads are scheduled fairly.
LiveNext ==
    \/ Construct
    \/ addJobWith(TRUE)
    \/ \E r \in Runners : RunnerStep(r)

LiveSpec == Init /\ [][LiveNext]_vars /\ \A r \in Runners : WF_vars(RunnerStep(r))


\* --------------------------------------------------------------- claims

Range(q) == {q[i] : i \in 1 .. Len(q)}

\* The constructor has returned a pool (which may since have been destroyed).
Constructed == poolState \in {"alive", "dtorIdle", "dtorBusy", "destroyed"}

\* ~ThreadPool has been entered.
Dying == poolState \in {"dtorIdle", "dtorBusy", "destroyed"}

\* Runner r's thread exists and its thread function has not returned.
ThreadLive(r) == pc[r] \in {"wait", "run", "running", "clear", "report", "finish", "release"}

\* C1: in every reachable state of a constructed pool, whatever the
\* interleaving of addJob, runnerFinishedJob and the destructor, the number
\* of runners in busyRunners is at most maxThreadCount.
C1_BusyAtMostMax ==
    Constructed => Cardinality(busyRunners) <= maxThreadCount

\* C1 witness: a pool with a ceiling of two has two busy runners and a job
\* that had to be queued.
C1_Witness ==
    /\ poolState = "alive"
    /\ maxThreadCount = 2
    /\ Cardinality(busyRunners) = 2
    /\ queuedJobs # <<>>

\* C2: no job handed to addJob has its run() entered more than once.
C2_RunAtMostOnce ==
    \A j \in Jobs : started[j] <= 1

\* C2 witness: a job that went through the queue has run and returned, and
\* the runner that ran it has since run another job.
C2_Witness ==
    \E j \in Range(dequeued), k \in Jobs :
        /\ j # k
        /\ j \in returned
        /\ started[j] = 1
        /\ started[k] = 1
        /\ \E r \in Runners : job[r] = k /\ pc[r] = "running" /\ nextRunner = 2

\* C3: every job addJob accepted is eventually run, when the pool is never
\* destroyed, threads can be created, every run() returns and the runner
\* threads are scheduled fairly (LiveSpec).
C3_AcceptedJobRuns ==
    \A j \in Jobs : (submitOutcome[j] = "returned") ~> (started[j] >= 1)

\* C3 witness: a job that had to wait in the queue has been run.
C3_Witness ==
    \E j \in Range(enqueued) : started[j] = 1 /\ j \in returned

\* C4: jobs leave the queue in the order they entered it: the jobs popped so
\* far, followed by the jobs still queued, are the jobs pushed, in the order
\* they were pushed.
C4_QueueIsFifo ==
    enqueued = dequeued \o queuedJobs

\* C4 witness: two jobs have been popped from the queue while a third waits.
C4_Witness ==
    /\ Len(dequeued) >= 2
    /\ queuedJobs # <<>>

\* C5: in a live pool, while a job waits in the queue no runner is idle and
\* the number of busy runners equals maxThreadCount.
C5_NoQueuedJobWithIdleRunner ==
    (poolState = "alive" /\ queuedJobs # <<>>) =>
        /\ idleRunners = <<>>
        /\ Cardinality(busyRunners) = maxThreadCount

\* C5 witness: a pool that keeps idle runners (minThreadCount = 2) has a job
\* queued after a runner had been idle and was reused.
C5_Witness ==
    /\ poolState = "alive"
    /\ minThreadCount = 2
    /\ queuedJobs # <<>>
    /\ nextRunner = 3
    /\ \E j \in Jobs : j \notin Range(enqueued) /\ j > 2 /\ started[j] = 1

\* C6 (the claim as stated): after an addJob whose thread could not be
\* created, the job is still queued or the caller saw addJob throw.
C6_ThreadFailureSurfaced ==
    \A j \in threadFailed : j \in Range(queuedJobs) \/ submitOutcome[j] = "threw"

\* C7: an addJob whose thread cannot be created leaves busyRunners,
\* idleRunners and queuedJobs as they were, and the runner it discarded is in
\* neither collection.
C7_ThreadFailureRolledBack ==
    [][threadFailed' # threadFailed =>
          /\ busyRunners' = busyRunners
          /\ idleRunners' = idleRunners
          /\ queuedJobs' = queuedJobs
          /\ \A r \in Runners :
                pc'[r] = "nothread" => r \notin busyRunners' /\ r \notin Range(idleRunners')]_vars

\* C7 witness: after a failed thread creation a later job was accepted, run
\* to its end, and its runner was parked idle.
C7_Witness ==
    \E j \in threadFailed, k \in Jobs :
        /\ k > j
        /\ k \in returned
        /\ idleRunners # <<>>

\* C8: a job that is in queuedJobs when the pool is destroyed is never run:
\* a dying or dead pool's queue is never popped, and none of the jobs in it
\* has been or is ever started.
C8_QueuedJobsDiscarded ==
    /\ [](Dying => \A j \in Range(queuedJobs) : started[j] = 0)
    /\ [][Dying => queuedJobs' = queuedJobs]_vars

\* C8 witness: the pool is destroyed with a job in its queue, and a runner
\* that was busy then has finished its job and ended.
C8_Witness ==
    /\ poolState = "destroyed"
    /\ queuedJobs # <<>>
    /\ \A r \in Runners : ~ThreadLive(r)
    /\ \E r \in Runners : pc[r] = "done" /\ job[r] = NoJob

\* C9: once the destructor has signalled a busy runner (the runners of
\* busyRunners are those in dtorSignalled when it returns), and for every
\* live runner once the destructor has returned, the runner's stop flag is
\* set and the job it holds has had signalStop() called; in particular every
\* job whose run() is still executing has been asked to stop.
C9_BusyRunnersStopped ==
    \A r \in Runners :
        ((poolState \in {"dtorBusy", "destroyed"} /\ r \in dtorSignalled)
            \/ (poolState = "destroyed" /\ ThreadLive(r))) =>
                /\ shouldStop[r]
                /\ job[r] # NoJob => job[r] \in stopRequested

\* C9 witness: the destructor has returned while two runners are inside
\* run(), both with the stop flag set and the job signalled.
C9_Witness ==
    /\ poolState = "destroyed"
    /\ \E r1, r2 \in Runners :
          /\ r1 # r2
          /\ pc[r1] = "running" /\ pc[r2] = "running"
          /\ shouldStop[r1] /\ shouldStop[r2]
          /\ {job[r1], job[r2]} \subseteq stopRequested

\* C10: the destructor, once entered, returns (or the process ends), even
\* when no run() ever returns: only the thread inside the destructor is
\* assumed to be scheduled (ShutdownSpec).
C10_ShutdownTerminates ==
    (poolState \in {"dtorIdle", "dtorBusy"}) ~> (poolState = "destroyed" \/ ~processAlive)

\* C10 witness: the destructor has returned while every runner that was busy
\* is still inside run().
C10_Witness ==
    /\ poolState = "destroyed"
    /\ processAlive
    /\ maxThreadCount = 2
    /\ Cardinality({r \in Runners : pc[r] = "running"}) = 2
    /\ returned = {}

\* C11: a runner that is idle when the destructor signals it holds no job,
\* has its stop flag set and, once parked, its wake signal set; it never
\* enters run() again, and its thread function eventually returns (or the
\* process ends) when the destructor's thread and the woken runner thread are
\* scheduled (StopSpec).
C11_IdleRunnerStops ==
    /\ [](\A r \in idleSignalled :
            /\ shouldStop[r]
            /\ job[r] = NoJob
            /\ pc[r] \in {"wait", "release", "done"}
            /\ pc[r] = "wait" => wakeSignal[r])
    /\ [][\A r \in idleSignalled : started' = started \/ pc'[r] = pc[r]]_vars
    /\ \A r \in Runners : (r \in idleSignalled) ~> (pc[r] = "done" \/ ~processAlive)

\* C11 witness: the pool is destroyed, and two runners that were idle then
\* have returned from their thread functions.
C11_Witness ==
    /\ poolState = "destroyed"
    /\ Cardinality(idleSignalled) = 2
    /\ \A r \in idleSignalled : pc[r] = "done"

\* C12: once ~ThreadPool has been entered no runner holds a strong reference
\* to the pool or is inside runnerFinishedJob; a runner that reaches line 226
\* then finds the pool gone and returns from its thread function without
\* starting a job; no step of a runner thread changes idleRunners,
\* busyRunners or queuedJobs, and nothing changes them after destruction.
C12_NoReportAfterDestruction ==
    /\ [](Dying => /\ strongRef = {}
                   /\ \A r \in Runners : pc[r] \notin {"finish", "release"})
    /\ [][Dying => \A r \in Runners :
                      (pc[r] = "report" /\ pc'[r] # "report")
                          => /\ pc'[r] = "done"
                             /\ job'[r] = NoJob
                             /\ started' = started
                             /\ UNCHANGED <<idleRunners, busyRunners, queuedJobs>>]_vars
    /\ [][(Dying /\ pc' # pc) => UNCHANGED <<idleRunners, busyRunners, queuedJobs>>]_vars
    /\ [][poolState = "destroyed" => UNCHANGED <<idleRunners, busyRunners, queuedJobs>>]_vars

\* C12 witness: the only runner was busy when the destructor signalled it,
\* its run() returned after that, and its thread function has returned with
\* the pool destroyed.
C12_Witness ==
    /\ poolState = "destroyed"
    /\ nextRunner = 2
    /\ dtorSignalled = {1}
    /\ pc[1] = "done"
    /\ job[1] = NoJob
    /\ returned = {1}
    /\ stopRequested = {1}
    /\ stopAfterReturn = {}

C14_ReportTakesQueuedJob ==
    [][\A r \in Runners :
          (pc[r] = "finish" /\ pc'[r] = "release" /\ queuedJobs # <<>>)
              => /\ queuedJobs' = Tail(queuedJobs)
                 /\ Len(queuedJobs') = Len(queuedJobs) - 1
                 /\ job[r] = NoJob
                 /\ job'[r] = Head(queuedJobs)
                 /\ wakeSignal'[r]
                 /\ r \in busyRunners
                 /\ busyRunners' = busyRunners
                 /\ idleRunners' = idleRunners
                 /\ verdict'[r] = "continue"]_vars

\* C14 witness: with jobs 2 and 3 queued behind job 1, the runner of job 1
\* has reported, holds job 2 and is still the busy runner; job 3 is left in
\* the queue.
C14_Witness ==
    \E r \in Runners :
        /\ pc[r] = "release"
        /\ verdict[r] = "continue"
        /\ job[r] = 2
        /\ dequeued = <<2>>
        /\ queuedJobs = <<3>>
        /\ busyRunners = {r}
        /\ idleRunners = <<>>

\* C15: a call of runnerFinishedJob by runner r that finds queuedJobs empty
\* removes r from busyRunners; when the busy runners that remain are at
\* least minThreadCount it returns false ("terminate"), r is in neither
\* collection and idle + busy is one less; otherwise r is appended to
\* idleRunners, it returns true and idle + busy is unchanged.  The runner is
\* given no job either way.
C15_ReportWithEmptyQueue ==
    [][\A r \in Runners :
          (pc[r] = "finish" /\ pc'[r] = "release" /\ queuedJobs = <<>>)
              => /\ r \in busyRunners
                 /\ busyRunners' = busyRunners \ {r}
                 /\ queuedJobs' = <<>>
                 /\ job'[r] = NoJob
                 /\ IF Cardinality(busyRunners') >= minThreadCount
                    THEN /\ verdict'[r] = "terminate"
                         /\ idleRunners' = idleRunners
                         /\ r \notin Range(idleRunners')
                         /\ Len(idleRunners') + Cardinality(busyRunners')
                               = Len(idleRunners) + Cardinality(busyRunners) - 1
                    ELSE /\ verdict'[r] = "continue"
                         /\ idleRunners' = Append(idleRunners, r)
                         /\ Len(idleRunners') + Cardinality(busyRunners')
                               = Len(idleRunners) + Cardinality(busyRunners)]_vars

\* C15 witness: in a living pool one runner was told to terminate and has
\* left, and another was parked in idleRunners.
C15_Witness ==
    /\ poolState = "alive"
    /\ \E r1, r2 \in Runners :
          /\ pc[r1] = "done"
          /\ verdict[r1] = "terminate"
          /\ r1 \notin busyRunners \cup Range(idleRunners)
          /\ pc[r2] = "wait"
          /\ r2 \in Range(idleRunners)
          /\ job[r2] = NoJob

\* C16: in a living pool in which no run() has returned yet, when the N jobs
\* submitted so far are at most maxThreadCount, N runners have been created,
\* busyRunners holds exactly these N runners, getBusyThreadCount() is N,
\* getIdleThreadCount() is 0 and queuedJobs is empty.
C16_FreshSubmitsAllBusy ==
    (poolState = "alive" /\ returned = {} /\ nextJob - 1 <= maxThreadCount)
        => /\ nextRunner - 1 = nextJob - 1
           /\ busyRunners = 1 .. (nextJob - 1)
           /\ getBusyThreadCount = nextJob - 1
           /\ getIdleThreadCount = 0
           /\ queuedJobs = <<>>

\* C17: in a living pool in which no run() has returned yet, when the jobs
\* submitted so far are maxThreadCount + K with K > 0, busyRunners holds
\* exactly maxThreadCount runners and queuedJobs holds the last K jobs in the
\* order they were submitted; and an addJob made with no idle runner and
\* maxThreadCount busy runners appends its job to queuedJobs, creates no
\* runner and changes neither collection of runners.
C17_SurplusSubmitsQueued ==
    /\ []((poolState = "alive" /\ returned = {} /\ nextJob - 1 > maxThreadCount)
            => /\ Cardinality(busyRunners) = maxThreadCount
               /\ queuedJobs = [i \in 1 .. (nextJob - 1 - maxThreadCount) |->
                                   maxThreadCount + i])
    /\ [][(nextJob' # nextJob /\ idleRunners = <<>>
                              /\ Cardinality(busyRunners) = maxThreadCount)
            => /\ queuedJobs' = Append(queuedJobs, nextJob)
               /\ nextRunner' = nextRunner
               /\ pc' = pc
               /\ busyRunners' = busyRunners
               /\ idleRunners' = idleRunners]_vars

\* C18: an addJob made while idleRunners is non-empty removes the front
\* runner from idleRunners, inserts it in busyRunners and hands it the job
\* with the wake signal set; it creates no runner and no thread, leaves
\* queuedJobs unchanged and leaves idle + busy unchanged.
C18_SubmitUsesIdleRunner ==
    [][(nextJob' # nextJob /\ idleRunners # <<>>)
          => LET r == Head(idleRunners) IN
             /\ idleRunners' = Tail(idleRunners)
             /\ r \notin busyRunners
             /\ busyRunners' = busyRunners \cup {r}
             /\ job[r] = NoJob
             /\ job' = [job EXCEPT ![r] = nextJob]
             /\ wakeSignal'[r]
             /\ nextRunner' = nextRunner
             /\ pc' = pc
             /\ threadFailed' = threadFailed
             /\ queuedJobs' = queuedJobs
             /\ Len(idleRunners') + Cardinality(busyRunners')
                   = Len(idleRunners) + Cardinality(busyRunners)]_vars

\* C18 witness: the first runner ran job 1, was parked as idle, and was then
\* handed job 2 by addJob, which it has run to the end; only one runner was
\* ever created and nothing was queued.
C18_Witness ==
    /\ nextRunner = 2
    /\ threadFailed = {}
    /\ enqueued = <<>>
    /\ returned = {1, 2}
    /\ started[2] = 1
    /\ busyRunners = {1}
    /\ idleRunners = <<>>

\* C19: for ThreadPool(1, 2), step by step.  After addJob(J1): 1 busy, 0
\* idle, 0 queued.  After addJob(J2): 2 busy.  After addJob(J3): 2 busy and
\* J3 queued.  When J1's runner then reports first, it is handed J3, with 2
\* busy and 0 queued.  When J2's runner reports after that, the queue being
\* empty, it is told to terminate, leaving J3's runner as the only busy
\* runner and no idle runner.
C19_Scenario ==
    /\ []((poolState = "alive" /\ minThreadCount = 1 /\ maxThreadCount = 2 /\ returned = {})
            => /\ nextJob = 2 => /\ getBusyThreadCount = 1
                                 /\ getIdleThreadCount = 0
                                 /\ queuedJobs = <<>>
               /\ nextJob = 3 => getBusyThreadCount = 2
               /\ nextJob = 4 => /\ getBusyThreadCount = 2
                                 /\ queuedJobs = <<3>>)
    /\ [][(/\ minThreadCount = 1 /\ maxThreadCount = 2 /\ nextJob = 4
           /\ queuedJobs = <<3>>
           /\ dequeued = <<>>
           /\ pc[1] = "finish" /\ pc'[1] = "release")
            => /\ job'[1] = 3
               /\ verdict'[1] = "continue"
               /\ getBusyThreadCount' = 2
               /\ queuedJobs' = <<>>]_vars
    /\ [][(/\ minThreadCount = 1 /\ maxThreadCount = 2 /\ nextJob = 4
           /\ job[1] = 3
           /\ dequeued = <<3>>
           /\ queuedJobs = <<>>
           /\ pc[2] = "finish" /\ pc'[2] = "release")
            => /\ verdict'[2] = "terminate"
               /\ busyRunners' = {1}
               /\ getIdleThreadCount' = 0
               /\ queuedJobs' = <<>>]_vars

\* C20: once the constructor has been called with (minThreadCount,
\* maxThreadCount), it has thrown InvalidArgumentError and there is no pool
\* exactly when minThreadCount < 0, maxThreadCount <= 0 or maxThreadCount <
\* minThreadCount; it has produced a pool exactly when 0 <= minThreadCount <=
\* maxThreadCount and maxThreadCount >= 1, and that pool starts with empty
\* idleRunners, busyRunners and queuedJobs.
C20_ConstructorValidates ==
    poolState # "unconstructed"
        => /\ poolState = "invalid"
                <=> (minThreadCount < 0 \/ maxThreadCount <= 0
                                        \/ maxThreadCount < minThreadCount)
           /\ Constructed
                <=> (0 <= minThreadCount /\ minThreadCount <= maxThreadCount
                                         /\ maxThreadCount >= 1)
           /\ poolState = "invalid"
                => /\ ~ownerRef
                   /\ nextJob = 1 /\ nextRunner = 1
                   /\ idleRunners = <<>> /\ busyRunners = {} /\ queuedJobs = <<>>
           /\ (poolState = "alive" /\ nextJob = 1)
                => idleRunners = <<>> /\ busyRunners = {} /\ queuedJobs = <<>>

\* C20 witness: the constructor was called with (2, 1), each argument valid
\* on its own, and threw.
C20_Witness ==
    /\ poolState = "invalid"
    /\ minThreadCount = 2
    /\ maxThreadCount = 1

\* The model has a job left for a caller to submit and, where addJob would
\* create a runner, a runner left to create.
SubmitInBounds ==
    /\ nextJob <= MaxJobs
    /\ (idleRunners = <<>> /\ ~PoolSaturated) => nextRunner <= MaxRunners

C22_NoIdleThreadLeak ==
    (Constructed /\ busyRunners = {} /\ queuedJobs = <<>>)
        => Len(idleRunners) <= minThreadCount

\* C22 witness: a living pool with minThreadCount 1 is without load after
\* two runners worked at once: one was told to terminate and has left, the
\* other is the only idle runner.
C22_Witness ==
    /\ poolState = "alive"
    /\ minThreadCount = 1
    /\ busyRunners = {}
    /\ queuedJobs = <<>>
    /\ Len(idleRunners) = 1
    /\ \E r \in Runners : pc[r] = "done" /\ verdict[r] = "terminate"

\* The runner threads whose thread function has not returned.
LiveThreads == {r \in Runners : ThreadLive(r)}

\* Runner r was told to terminate by runnerFinishedJob and is between the
\* return of that call and the return of its thread function.
Leaving(r) == pc[r] = "release" /\ verdict[r] = "terminate"

\* C23 as stated: in every state of a living pool, |idleRunners| +
\* |busyRunners| is the number of runner threads that were started and whose
\* thread function has not returned.
C23_CountIsLiveThreads ==
    (poolState = "alive" /\ processAlive)
        => Len(idleRunners) + Cardinality(busyRunners) = Cardinality(LiveThreads)

\* C23 amended: in every state of a living pool, idleRunners and busyRunners
\* are disjoint, hold no runner twice, and together hold exactly the live
\* runner threads that runnerFinishedJob has not told to terminate; a runner
\* told to terminate is in neither from the return of runnerFinishedJob on,
\* before its thread function returns.
C23_CountIsLiveUnlessLeaving ==
    (poolState = "alive" /\ processAlive)
        => /\ Range(idleRunners) \cap busyRunners = {}
           /\ Cardinality(Range(idleRunners)) = Len(idleRunners)
           /\ Range(idleRunners) \cup busyRunners = {r \in LiveThreads : ~Leaving(r)}
           /\ Len(idleRunners) + Cardinality(busyRunners)
                 = Cardinality(LiveThreads) - Cardinality({r \in Runners : Leaving(r)})

\* C23 witness: two runner threads are alive, one of them told to terminate
\* and not yet returned, and the pool counts one runner.
C23_Witness ==
    /\ poolState = "alive" /\ processAlive
    /\ Cardinality(LiveThreads) = 2
    /\ \E r \in Runners : Leaving(r)
    /\ Len(idleRunners) + Cardinality(busyRunners) = 1

\* C24: a call of startJob on a runner that holds a job raises
\* ProgrammingError and leaves the runner's job and wake signal as they
\* were; a call on a runner that holds none stores the job and raises
\* nothing.  So a runner on which ProgrammingError was raised still holds the
\* job it held.
C24_DoubleAssignmentRejected ==
    /\ [][\E r \in Runners :
            IF job[r] # NoJob
            THEN /\ job' = job
                 /\ wakeSignal' = wakeSignal
                 /\ programmingError' = programmingError \cup {r}
            ELSE /\ job'[r] \in Jobs
                 /\ wakeSignal'[r]
                 /\ programmingError' = programmingError]_vars
    /\ [][\A r \in Runners : job[r] # NoJob => job'[r] = job[r]]_vars
    /\ [](\A r \in programmingError : job[r] # NoJob)

\* C24 witness: runner 1 holds job 1 and a second startJob on it was
\* rejected.
C24_Witness ==
    /\ job[1] = 1
    /\ 1 \in programmingError

\* The calling thread is between the first and the last statement of addJob.
InsideAddJob == callerPc # "out"

\* Runner r's thread is between the first and the last statement of
\* runnerFinishedJob.
InsideReport(r) == pc[r] \in {"finishLocked", "finishErased", "finishUnlock"}

\* C25: a getter holds the pool mutex from entry to return; the value it
\* returns is the size of busyRunners (getBusyThreadCount) or of idleRunners
\* (getIdleThreadCount) in the state of the return, a state in which no
\* thread is inside addJob or runnerFinishedJob; and no step of a getter
\* changes the pool's collections, the runners or the jobs.
C25_GettersAreSnapshots ==
    /\ [](observerPc # "out" => poolMutex = Observer)
    /\ [][(observerPc # "out" /\ observerPc' = "out")
            => /\ observed' = (IF observerPc = "busy" THEN Cardinality(busyRunners)
                                                      ELSE Len(idleRunners))
               /\ ~InsideAddJob
               /\ \A r \in Runners : ~InsideReport(r)]_vars
    /\ [][observerPc' # observerPc
            => UNCHANGED <<poolVars, refVars, dtorVars, runnerVars, jobVars, callerVars,
                           histVars, callerPc>>]_vars

\* C25 witness: a getter returned 1 after a submit whose thread could not be
\* started (its runner was in busyRunners for part of addJob) and a second
\* submit that left one busy runner.
C25_Witness ==
    /\ observerPc = "out"
    /\ observed = 1
    /\ callerPc = "out"
    /\ nextJob = 3
    /\ threadFailed = {1}
    /\ busyRunners = {2}
    /\ idleRunners = <<>>

\* C26: no state is reachable in which a runner's thread is about to write
\* (or read) the runner's _job outside the runner mutex while another
\* thread, in signalStop or in the handoff of addJob, is about to read or
\* write it.
C26_JobPointerNeverRaced ==
    \A r \in Runners : ~JobRace(r)

\* C27 as stated: signalStop forwards cancellation only to a job that is
\* still executing; no job has had signalStop() called on it after its run()
\* had returned.
C27_NoStopAfterReturn ==
    stopAfterReturn = {}

\* A job handed to a runner by startJob from addJob (not taken from the queue)
\* that the runner has not begun: the runner is busy and either parked on its
\* wake signal or still between the pool's verdict and the wait.
HandedOver(r, j) ==
    /\ job[r] = j
    /\ r \in busyRunners
    /\ pc[r] \in {"wait", "release"}
    /\ j \notin Range(dequeued)

\* C28: no wake-up is lost in the handoff of addJob. While the pool is alive
\* and the runner threads are scheduled fairly, a job handed to a runner
\* (a runner taken from idleRunners, parked or not yet parked, or a runner
\* just created) is eventually begun by that runner's thread.
C28_HandoffWakes ==
    \A r \in Runners : \A j \in Jobs : HandedOver(r, j) ~> (started[j] >= 1)

\* C28 witness: addJob handed a job to the front idle runner after that
\* runner got the verdict "continue" from runnerFinishedJob and before it
\* reached _wakeSignal.wait(); the wake signal is set for it to find.
C28_Witness ==
    \E r \in Runners :
        /\ pc[r] = "release"
        /\ verdict[r] = "continue"
        /\ job[r] \in Jobs \ Range(dequeued)
        /\ r \in busyRunners
        /\ wakeSignal[r]
        /\ started[job[r]] = 0

\* The thread function of runner r has returned: run() left its loop at the
\* break of line 191 (stop flag), 228 (pool dead) or 233 (terminate verdict).
Terminated(r) == pc[r] = "done"

Listed(r) == r \in busyRunners \/ r \in Range(idleRunners)

\* ~ThreadPool has been entered and has not returned.
InDestructor == poolState \in {"dtorIdle", "dtorBusy"}

\* C29 as stated: a runner whose thread function has returned is in neither
\* idleRunners nor busyRunners, and it is never handed a job again.
C29_TerminatedRunnerUnlisted ==
    /\ [](\A r \in Runners : Terminated(r) => ~Listed(r))
    /\ [][\A r \in Runners : Terminated(r) => (Terminated(r)' /\ job'[r] = job[r])]_vars

\* C29: a runner whose thread function has returned stays terminated and is
\* never handed a job again; it is in neither idleRunners nor busyRunners
\* unless the pool's destructor has begun and has not finished (a runner
\* stopped by the destructor, or one that found the pool dead, stays in the
\* list until the destructor's clear() of that list).
C29_TerminatedRunnerNotReused ==
    /\ [](\A r \in Runners : (Terminated(r) /\ ~InDestructor) => ~Listed(r))
    /\ [][\A r \in Runners : Terminated(r) => (Terminated(r)' /\ job'[r] = job[r])]_vars

\* C29 witness: in a pool of at most one thread, runner 1 has got the
\* terminate verdict and its thread function has returned; a job added to the
\* live pool afterwards went to a new runner, not to runner 1.
C29_Witness ==
    /\ Constructed
    /\ ~Dying
    /\ maxThreadCount = 1
    /\ Terminated(1)
    /\ verdict[1] = "terminate"
    /\ job[1] = NoJob
    /\ ~Listed(1)
    /\ busyRunners = {2}
    /\ job[2] \in Jobs
    /\ started[job[2]] >= 1

\* A PoolRunner object has been created in this step (line 108).
RunnerCreated == nextRunner' # nextRunner

\* C30: a runner is created only by addJob, only when idleRunners is empty
\* and fewer than maxThreadCount runners are busy, and with the job of that
\* call assigned to it; when its thread has been started the runner is in
\* busyRunners and not in idleRunners.  No other step creates a runner.
C30_RunnerCreatedBusy ==
    [][RunnerCreated =>
          /\ nextRunner' = nextRunner + 1
          /\ nextJob' = nextJob + 1
          /\ submitOutcome[nextJob] = "none"
          /\ submitOutcome'[nextJob] # "none"
          /\ idleRunners = <<>>
          /\ idleRunners' = <<>>
          /\ Cardinality(busyRunners) < maxThreadCount
          /\ job[nextRunner] = NoJob
          /\ job'[nextRunner] = nextJob
          /\ pc[nextRunner] = "unborn"
          /\ pc'[nextRunner] \in {"wait", "nothread"}
          /\ pc'[nextRunner] = "wait" => nextRunner \in busyRunners'
          /\ \A r \in Runners \ {nextRunner} : pc'[r] = pc[r] /\ job'[r] = job[r]]_vars

\* C30 witness: a pool of at most two threads created runner 2 for the second
\* job while runner 1 was busy, and queued the third job instead of creating
\* a third runner.
C30_Witness ==
    /\ maxThreadCount = 2
    /\ nextRunner = 3
    /\ busyRunners = {1, 2}
    /\ idleRunners = <<>>
    /\ job[2] = 2
    /\ pc[2] = "wait"
    /\ queuedJobs = <<3>>
    /\ threadFailed = {}

\* C31: idle runners are reused in FIFO order.  Every step of a live pool
\* that changes idleRunners either removes its front runner, which addJob
\* makes busy and hands the job of that call, or appends at its back the
\* runner that has just reported completion.
C31_IdleRunnersFifo ==
    [][(poolState = "alive" /\ idleRunners' # idleRunners) =>
          \/ /\ idleRunners # <<>>
             /\ idleRunners' = Tail(idleRunners)
             /\ nextJob' = nextJob + 1
             /\ busyRunners' = busyRunners \cup {Head(idleRunners)}
             /\ job'[Head(idleRunners)] = nextJob
             /\ \A r \in Runners \ {Head(idleRunners)} : job'[r] = job[r]
          \/ \E r \in Runners :
                /\ pc[r] = "finish"
                /\ pc'[r] = "release"
                /\ r \in busyRunners
                /\ idleRunners' = Append(idleRunners, r)
                /\ busyRunners' = busyRunners \ {r}]_vars

\* C31 witness: both runners of a pool with minThreadCount = 2 are idle;
\* runner 2 reported completion first and runner 1 was appended behind it,
\* and the owner can add the third job, which the front runner 2 will get.
C31_Witness ==
    /\ poolState = "alive"
    /\ ownerRef
    /\ minThreadCount = 2
    /\ idleRunners = <<2, 1>>
    /\ busyRunners = {}
    /\ returned = {1, 2}
    /\ nextJob = 3
    /\ job[1] = NoJob
    /\ job[2] = NoJob

\* Runner r is inside a work cycle: it has woken up with a job and has not
\* yet cleared it.
InWorkCycle(r) == pc[r] \in {"run", "running", "clear"}

\* Runner r is about to report completion: it is between line 214 and its
\* call of runnerFinishedJob.
Reporting(r) == pc[r] \in {"report", "finish"}

\* C32: the runner's job reference is set once per work cycle and cleared
\* after execution.  A runner in a work cycle holds a job; a runner about to
\* report completion holds none.  The reference is only ever set from null,
\* by startJob outside a work cycle (on a new runner, on an idle runner, or
\* inside the completion report for a queued job), and only ever cleared by
\* the runner itself at line 214, after run() of that job has returned.
C32_JobSetOnceClearedAfterRun ==
    /\ [](\A r \in Runners : /\ InWorkCycle(r) => job[r] \in Jobs
                             /\ Reporting(r) => job[r] = NoJob)
    /\ [][\A r \in Runners :
             job'[r] # job[r] =>
                \/ /\ job[r] = NoJob
                   /\ job'[r] \in Jobs
                   /\ started[job'[r]] = 0
                   /\ pc[r] \in {"unborn", "wait", "release", "finish"}
                \/ /\ job[r] \in returned
                   /\ job'[r] = NoJob
                   /\ pc[r] = "clear"
                   /\ pc'[r] = "report"]_vars

\* C32 witness: the single runner of a pool with maxThreadCount = 1 is about
\* to report completion for the second time: both jobs have run on it, one
\* per work cycle, and it holds no job.
C32_Witness ==
    /\ maxThreadCount = 1
    /\ nextRunner = 2
    /\ threadFailed = {}
    /\ returned = {1, 2}
    /\ started[1] = 1
    /\ started[2] = 1
    /\ pc[1] = "finish"
    /\ job[1] = NoJob

\* C33: the pool never calls startJob on a runner that holds a job.  Every
\* runner in idleRunners, every runner inside runnerFinishedJob and every
\* runner not yet created holds no job, so the calls of lines 70, 110 and 131
\* find _job null: no addJob call and no completion report has ended with
\* the ProgrammingError of line 172.
C33_DoubleAssignmentUnreachable ==
    /\ \A r \in Range(idleRunners) : job[r] = NoJob
    /\ \A r \in Runners : (r >= nextRunner \/ pc[r] \in {"finish", "finishLocked"})
                              => ~StartJobThrows(r)
    /\ \A j \in Jobs : submitOutcome[j] # "threw"
    /\ \A r \in Runners : verdict[r] # "threw"

\* C33 witness: one runner has been handed a job in each of the three ways.
\* It was created for job 1, took the queued job 2 inside its completion
\* report, went idle and was handed job 3 by addJob; none of the calls threw.
C33_Witness ==
    /\ nextRunner = 2
    /\ threadFailed = {}
    /\ dequeued = <<2>>
    /\ returned = {1, 2}
    /\ job[1] = 3
    /\ submitOutcome[3] = "returned"
    /\ busyRunners = {1}
    /\ idleRunners = <<>>
    /\ programmingError = {}

\* ---------------------------------------------------------------------
\* The wake-up handshake, step by step.  signalStop sets _shouldStop and
\* forwards the cancellation under the runner mutex (lines 153-161) and sets
\* the wake signal after it has released the mutex (line 164); the runner's
\* wait() returns (line 183) before the runner takes the mutex, clears the
\* signal and looks at _shouldStop and _job (lines 186-199).  startJob is
\* under the runner mutex from its first to its last statement.
\* ---------------------------------------------------------------------

\* Lines 153-161 of signalStop.
signalStopLocked(r) ==
    /\ shouldStop' = [shouldStop EXCEPT ![r] = TRUE]
    /\ IF job[r] # NoJob
       THEN /\ stopRequested' = stopRequested \cup {job[r]}
            /\ stopAfterReturn' = IF job[r] \in returned
                                  THEN stopAfterReturn \cup {job[r]}
                                  ELSE stopAfterReturn
       ELSE UNCHANGED <<stopRequested, stopAfterReturn>>

\* Line 164 of signalStop.
signalStopSet(r) == wakeSignal' = [wakeSignal EXCEPT ![r] = TRUE]

\* The destructor is inside signalStop of an idle runner, mutex section.
WakeDtorFlagIdle ==
    /\ processAlive
    /\ poolState = "dtorIdle"
    /\ dtorIdx <= Len(idleRunners)
    /\ ~shouldStop[idleRunners[dtorIdx]]
    /\ signalStopLocked(idleRunners[dtorIdx])
    /\ UNCHANGED <<poolVars, refVars, dtorVars, pc, job, wakeSignal, verdict, caught,
                   started, returned, callerVars, histVars>>
    /\ UNCHANGED lockVars

\* signalStop of an idle runner sets the wake signal and returns; the loop of
\* line 32 moves on.
WakeDtorSetIdle ==
    /\ processAlive
    /\ poolState = "dtorIdle"
    /\ dtorIdx <= Len(idleRunners)
    /\ shouldStop[idleRunners[dtorIdx]]
    /\ signalStopSet(idleRunners[dtorIdx])
    /\ dtorIdx' = dtorIdx + 1
    /\ idleSignalled' = idleSignalled \cup {idleRunners[dtorIdx]}
    /\ UNCHANGED <<poolVars, refVars, dtorThread, dtorSignalled, pc, job, shouldStop,
                   verdict, caught, jobVars, callerVars, histVars>>
    /\ UNCHANGED lockVars

\* The destructor is inside signalStop of a busy runner, mutex section.  The
\* loop of line 53 handles one runner at a time.
WakeDtorFlagBusy(r) ==
    /\ processAlive
    /\ poolState = "dtorBusy"
    /\ r \in busyRunners \ dtorSignalled
    /\ \A q \in busyRunners \ dtorSignalled : ~shouldStop[q]
    /\ signalStopLocked(r)
    /\ UNCHANGED <<poolVars, refVars, dtorVars, pc, job, wakeSignal, verdict, caught,
                   started, returned, callerVars, histVars>>
    /\ UNCHANGED lockVars

\* signalStop of a busy runner sets the wake signal and returns.
WakeDtorSetBusy(r) ==
    /\ processAlive
    /\ poolState = "dtorBusy"
    /\ r \in busyRunners \ dtorSignalled
    /\ shouldStop[r]
    /\ signalStopSet(r)
    /\ dtorSignalled' = dtorSignalled \cup {r}
    /\ UNCHANGED <<poolVars, refVars, dtorThread, dtorIdx, idleSignalled, pc, job,
                   shouldStop, verdict, caught, jobVars, callerVars, histVars>>
    /\ UNCHANGED lockVars

\* Mutant: a wait() with sporadic wake-ups, which returns whether or not the
\* signal is set.
WakeWaitReturnsSporadic(r) ==
    /\ CanStep(r)
    /\ pc[r] = "wait"
    /\ pc' = [pc EXCEPT ![r] = "woken"]
    /\ UNCHANGED <<poolVars, refVars, dtorVars, job, shouldStop, wakeSignal, verdict, caught,
                   jobVars, callerVars, histVars>>
    /\ UNCHANGED lockVars

\* Line 183: _wakeSignal.wait() returns because the signal is set.  The
\* signal stays set.
WakeWaitReturns(r) ==
    /\ CanStep(r)
    /\ pc[r] = "wait"
    /\ wakeSignal[r]
    /\ pc' = [pc EXCEPT ![r] = "woken"]
    /\ UNCHANGED <<poolVars, refVars, dtorVars, job, shouldStop, wakeSignal, verdict, caught,
                   jobVars, callerVars, histVars>>
    /\ UNCHANGED lockVars

\* Lines 185-199: under the runner mutex the runner clears the signal, leaves
\* the loop when _shouldStop is set, and raises ProgrammingError when it has
\* no job.
WakeCheck(r) ==
    /\ CanStep(r)
    /\ pc[r] = "woken"
    /\ wakeSignal' = [wakeSignal EXCEPT ![r] = FALSE]
    /\ IF shouldStop[r]
       THEN /\ pc' = [pc EXCEPT ![r] = "done"]
            /\ UNCHANGED programmingError
       ELSE IF job[r] = NoJob
            THEN /\ pc' = [pc EXCEPT ![r] = "error"]
                 /\ programmingError' = programmingError \cup {r}
            ELSE /\ pc' = [pc EXCEPT ![r] = "run"]
                 /\ UNCHANGED programmingError
    /\ UNCHANGED <<poolVars, refVars, dtorVars, job, shouldStop, verdict, caught, jobVars,
                   callerVars, enqueued, dequeued, processAlive>>
    /\ UNCHANGED lockVars

WakeNext ==
    \/ Construct
    \/ addJobWith(TRUE)
    \/ ReleasePool
    \/ WakeDtorFlagIdle
    \/ WakeDtorSetIdle
    \/ DtorClearIdle
    \/ \E r \in Runners : WakeDtorFlagBusy(r)
    \/ \E r \in Runners : WakeDtorSetBusy(r)
    \/ DtorEnd
    \/ \E r \in Runners : WakeWaitReturns(r)
    \/ \E r \in Runners : WakeCheck(r)
    \/ \E r \in Runners : RunJobBegin(r)
    \/ \E r \in Runners : RunJobEndWith(r, FALSE, TRUE) /\ UNCHANGED caught
    \/ \E r \in Runners : RunClearJobWith(r, FALSE, TRUE)
    \/ \E r \in Runners : RunToStrong(r)
    \/ \E r \in Runners : runnerFinishedJob(r)
    \/ \E r \in Runners : RunReleasePool(r)

WakeSpec == Init /\ [][WakeNext]_vars

\* C34: the wake-up check of lines 193-197 never fires.  Whenever a runner's
\* wait() has returned and its stop flag is not set, the runner holds a job,
\* with signalStop's two halves, startJob and the runner's own steps
\* interleaved in every order; no runner has raised ProgrammingError and a
\* set wake signal always has a job or a stop request behind it.
C34_WakeUpHasJobOrStop ==
    /\ \A r \in Runners : (pc[r] = "woken" /\ ~shouldStop[r]) => job[r] # NoJob
    /\ \A r \in Runners : wakeSignal[r] => (shouldStop[r] \/ job[r] # NoJob)
    /\ \A r \in Runners : pc[r] # "error"
    /\ programmingError = {}

\* C34 witness: runner 1's wait() has returned on the signal startJob set for
\* job 1; the destructor has since set its stop flag and is still before the
\* _wakeSignal.set() of line 164.  Runner 2 is idle, was signalled, and has
\* left its loop.
C34_Witness ==
    /\ poolState = "dtorBusy"
    /\ pc[1] = "woken"
    /\ job[1] \in Jobs
    /\ shouldStop[1]
    /\ 1 \notin dtorSignalled
    /\ wakeSignal[1]
    /\ pc[2] = "done"
    /\ 2 \in idleSignalled

\* C35: while any runner is idle the pool has at most minThreadCount runners
\* in all.  Hence never more than minThreadCount idle runners, never more
\* than maxThreadCount runners idle and busy together, and no idle runner at
\* all in a pool with minThreadCount = 0.
C35_IdleWithinMinimum ==
    Constructed =>
        /\ idleRunners # <<>> =>
              Len(idleRunners) + Cardinality(busyRunners) <= minThreadCount
        /\ Len(idleRunners) <= minThreadCount
        /\ Len(idleRunners) + Cardinality(busyRunners) <= maxThreadCount
        /\ minThreadCount = 0 => idleRunners = <<>>

\* C35 witness: in a pool with minThreadCount = 2 and maxThreadCount = 2 one
\* runner has gone idle while the other still runs its job: idle and busy
\* runners together are exactly minThreadCount.
C35_Witness ==
    /\ poolState = "alive"
    /\ minThreadCount = 2
    /\ maxThreadCount = 2
    /\ Len(idleRunners) = 1
    /\ Cardinality(busyRunners) = 1
    /\ \E r \in busyRunners : pc[r] = "running"

\* The jobs runner r holds, as a set (empty or one job).
HeldBy(r) == IF job[r] = NoJob THEN {} ELSE {job[r]}

\* C36: the pool's bookkeeping is consistent.  No runner is both idle and
\* busy, no runner stands twice in idleRunners, no job stands twice in
\* queuedJobs, no queued job is held by a runner, and no job is held by two
\* runners.
C36_BookkeepingConsistent ==
    /\ Range(idleRunners) \cap busyRunners = {}
    /\ \A i, k \in 1..Len(idleRunners) : idleRunners[i] = idleRunners[k] => i = k
    /\ \A i, k \in 1..Len(queuedJobs) : queuedJobs[i] = queuedJobs[k] => i = k
    /\ \A r \in Runners : HeldBy(r) \cap Range(queuedJobs) = {}
    /\ \A r, q \in Runners : r # q => HeldBy(r) \cap HeldBy(q) = {}

\* C36 witness: a pool with minThreadCount = 2 has one idle runner, one busy
\* runner, and the job the busy runner holds is one it took from the queue
\* inside its completion report.
C36_Witness ==
    /\ poolState = "alive"
    /\ Len(idleRunners) = 1
    /\ Cardinality(busyRunners) = 1
    /\ \E r \in busyRunners : job[r] \in Range(dequeued)
    /\ dequeued # <<>>

\* C37: a stop flag, once set, stays set.  A runner whose stop flag is set is
\* never handed a job; the only run() it can still start is of the job it
\* held when signalStop was called, on which signalStop() was invoked then;
\* once that job is cleared it starts no run() at all.
C37_StoppedRunnerStartsNoOtherJob ==
    /\ [][\A r \in Runners : shouldStop[r] => shouldStop'[r]]_vars
    /\ [][\A r \in Runners : shouldStop[r] => job'[r] \in {job[r], NoJob}]_vars
    /\ [][\A r \in Runners :
             (shouldStop[r] /\ pc[r] # "running" /\ pc'[r] = "running") =>
                /\ pc[r] = "run"
                /\ job[r] \in stopRequested
                /\ started[job[r]] = 0
                /\ started'[job[r]] = 1]_vars
    /\ [](\A r \in Runners :
             (shouldStop[r] /\ job[r] = NoJob) => pc[r] \notin {"run", "running", "clear"})

\* C37 witness: runner 1 passed the check of line 190 before the destructor
\* set its stop flag; the flag is now set, signalStop() was invoked on the
\* job it holds, and it is about to call run() of that job for the first
\* time.
C37_Witness ==
    /\ pc[1] = "run"
    /\ shouldStop[1]
    /\ job[1] \in stopRequested
    /\ started[job[1]] = 0
    /\ poolState \in {"dtorBusy", "destroyed"}

\* ---------------------------------------------------------------------
\* Both kinds of mutex as variables.  ThreadPool::_mutex is held by addJob,
\* runnerFinishedJob and ~ThreadPool from entry to return; PoolRunner::_mutex
\* is held by startJob (lines 169-177), by the mutex section of signalStop
\* (lines 153-161) and by the runner's check after a wake-up (lines 185-199).
\* A thread is the owner's thread (Owner) or a runner's thread (its number);
\* the destructor runs on dtorThread.  Every run() returns normally.
\* ---------------------------------------------------------------------

\* Mutex::Lock lock(_mutex) on runner q's mutex by thread t: waits until the
\* mutex is free.
RunnerLock(q, t) ==
    /\ runnerMutex[q] = NoThread
    /\ runnerMutex' = [runnerMutex EXCEPT ![q] = t]

\* The Mutex::Lock on runner q's mutex goes out of scope.
RunnerUnlock(q) == runnerMutex' = [runnerMutex EXCEPT ![q] = NoThread]

\* Mutant: the lock of line 186 lives as long as the loop body, so the runner
\* still holds its mutex when it reports completion.
WakeCheckUnlockLate(r) == UNCHANGED runnerMutex

\* Line 199: the block of the wake-up check ends and releases the runner
\* mutex before _job->run() is called.
WakeCheckUnlock(r) == RunnerUnlock(r)

\* Lines 100-122 with no idle runner: the job is queued, or a runner is
\* created and handed the job (nobody else can reach the new runner's mutex).
OrderAddJobBody ==
    /\ idleRunners = <<>>
    /\ LockedAddJobBody

\* Lines 126-131: the front idle runner is moved to _busyRunners and
\* startJob waits for that runner's mutex.
OrderAddJobLockIdle ==
    /\ callerPc = "locked"
    /\ idleRunners # <<>>
    /\ RunnerLock(Head(idleRunners), Owner)
    /\ idleRunners' = PopFront(idleRunners)
    /\ busyRunners' = busyRunners \cup {Head(idleRunners)}
    /\ callerPc' = "runnerLocked"
    /\ UNCHANGED <<minThreadCount, maxThreadCount, poolState, queuedJobs, refVars, dtorVars,
                   runnerVars, jobVars, callerVars, histVars, poolMutex, observerPc,
                   observed>>

\* Lines 171-177 inside addJob: startJob stores the job, sets the wake signal
\* and releases the runner mutex.
OrderAddJobStart ==
    /\ callerPc = "runnerLocked"
    /\ \E q \in Runners :
          /\ runnerMutex[q] = Owner
          /\ startJob(q, nextJob)
          /\ RunnerUnlock(q)
    /\ nextJob' = nextJob + 1
    /\ callerPc' = "unlock"
    /\ UNCHANGED <<poolVars, refVars, dtorVars, pc, shouldStop, verdict, caught, jobVars,
                   nextRunner, submitOutcome, threadFailed, enqueued, dequeued,
                   processAlive, poolMutex, observerPc, observed>>

\* Line 70: a job is queued and startJob waits for the reporting runner's
\* own mutex.
OrderReportLockSelf(r) ==
    /\ pc[r] = "finishLocked"
    /\ HasQueuedJob
    /\ RunnerLock(r, r)
    /\ pc' = [pc EXCEPT ![r] = "finishRunnerLocked"]
    /\ UNCHANGED <<poolVars, refVars, dtorVars, job, shouldStop, wakeSignal, verdict, caught,
                   jobVars, callerVars, histVars, poolMutex, callerPc, observerPc,
                   observed>>

\* Lines 66-70: the front queued job is popped and stored by startJob, which
\* releases the runner mutex.
OrderReportStart(r) ==
    /\ pc[r] = "finishRunnerLocked"
    /\ queuedJobs' = PopFront(queuedJobs)
    /\ dequeued' = Append(dequeued, Head(queuedJobs))
    /\ startJob(r, Head(queuedJobs))
    /\ RunnerUnlock(r)
    /\ verdict' = [verdict EXCEPT ![r] = "continue"]
    /\ pc' = [pc EXCEPT ![r] = "finishUnlock"]
    /\ UNCHANGED <<minThreadCount, maxThreadCount, poolState, idleRunners, busyRunners,
                   refVars, dtorVars, shouldStop, caught, jobVars, callerVars, enqueued,
                   processAlive, poolMutex, callerPc, observerPc, observed>>

\* Line 79: nothing is queued and the runner is erased from _busyRunners.
OrderReportErase(r) ==
    /\ ~HasQueuedJob
    /\ LockedReportBody(r)

\* Line 186: the runner, woken up, waits for its own mutex.
OrderWakeLock(r) ==
    /\ CanStep(r)
    /\ pc[r] = "woken"
    /\ RunnerLock(r, r)
    /\ pc' = [pc EXCEPT ![r] = "wokenLocked"]
    /\ UNCHANGED <<poolVars, refVars, dtorVars, job, shouldStop, wakeSignal, verdict, caught,
                   jobVars, callerVars, histVars, poolMutex, callerPc, observerPc,
                   observed>>

\* Lines 188-199: the check under the runner mutex, and its release.
OrderWakeCheck(r) ==
    /\ CanStep(r)
    /\ pc[r] = "wokenLocked"
    /\ wakeSignal' = [wakeSignal EXCEPT ![r] = FALSE]
    /\ IF shouldStop[r]
       THEN /\ pc' = [pc EXCEPT ![r] = "done"]
            /\ UNCHANGED programmingError
       ELSE IF job[r] = NoJob
            THEN /\ pc' = [pc EXCEPT ![r] = "error"]
                 /\ programmingError' = programmingError \cup {r}
            ELSE /\ pc' = [pc EXCEPT ![r] = "run"]
                 /\ UNCHANGED programmingError
    /\ WakeCheckUnlock(r)
    /\ UNCHANGED <<poolVars, refVars, dtorVars, job, shouldStop, verdict, caught, jobVars,
                   callerVars, enqueued, dequeued, processAlive, poolMutex, callerPc,
                   observerPc, observed>>

\* The owner drops its reference; it is not inside addJob.
OrderReleasePool ==
    /\ callerPc = "out"
    /\ ReleasePool

\* Line 27: ~ThreadPool takes the pool mutex.
OrderDtorEnter ==
    /\ processAlive
    /\ poolState = "dtorIdle"
    /\ Lock(dtorThread)
    /\ UNCHANGED <<poolVars, refVars, dtorVars, runnerVars, jobVars, callerVars, histVars,
                   callerPc, observerPc, observed, runnerMutex>>

\* The idle runner the loop of line 32 has reached.
DtorIdleTarget == idleRunners[dtorIdx]

\* Line 33, then line 154: signalStop waits for the idle runner's mutex.
OrderDtorLockIdle ==
    /\ processAlive
    /\ poolMutex = dtorThread
    /\ poolState = "dtorIdle"
    /\ dtorIdx <= Len(idleRunners)
    /\ ~shouldStop[DtorIdleTarget]
    /\ RunnerLock(DtorIdleTarget, dtorThread)
    /\ UNCHANGED <<poolVars, refVars, dtorVars, runnerVars, jobVars, callerVars, histVars,
                   poolMutex, callerPc, observerPc, observed>>

\* Lines 156-161 on an idle runner, and the release of its mutex.
OrderDtorFlagIdle ==
    /\ processAlive
    /\ poolMutex = dtorThread
    /\ poolState = "dtorIdle"
    /\ dtorIdx <= Len(idleRunners)
    /\ ~shouldStop[DtorIdleTarget]
    /\ runnerMutex[DtorIdleTarget] = dtorThread
    /\ signalStopLocked(DtorIdleTarget)
    /\ RunnerUnlock(DtorIdleTarget)
    /\ UNCHANGED <<poolVars, refVars, dtorVars, pc, job, wakeSignal, verdict, caught,
                   started, returned, callerVars, histVars, poolMutex, callerPc,
                   observerPc, observed>>

\* Line 164 on an idle runner; the loop of line 32 moves on.
OrderDtorSetIdle ==
    /\ processAlive
    /\ poolMutex = dtorThread
    /\ poolState = "dtorIdle"
    /\ dtorIdx <= Len(idleRunners)
    /\ shouldStop[DtorIdleTarget]
    /\ signalStopSet(DtorIdleTarget)
    /\ dtorIdx' = dtorIdx + 1
    /\ idleSignalled' = idleSignalled \cup {DtorIdleTarget}
    /\ UNCHANGED <<poolVars, refVars, dtorThread, dtorSignalled, pc, job, shouldStop,
                   verdict, caught, jobVars, callerVars, histVars>>
    /\ UNCHANGED lockVars

\* Line 37, inside the destructor's lock.
OrderDtorClearIdle ==
    /\ poolMutex = dtorThread
    /\ DtorClearIdle

\* The busy runners the loop of line 53 has still to signal.
DtorBusyLeft == busyRunners \ dtorSignalled

\* Line 54, then line 154: signalStop waits for a busy runner's mutex.
OrderDtorLockBusy(r) ==
    /\ processAlive
    /\ poolMutex = dtorThread
    /\ poolState = "dtorBusy"
    /\ r \in DtorBusyLeft
    /\ \A q \in DtorBusyLeft : ~shouldStop[q] /\ runnerMutex[q] # dtorThread
    /\ RunnerLock(r, dtorThread)
    /\ UNCHANGED <<poolVars, refVars, dtorVars, runnerVars, jobVars, callerVars, histVars,
                   poolMutex, callerPc, observerPc, observed>>

\* Lines 156-161 on a busy runner, and the release of its mutex.
OrderDtorFlagBusy(r) ==
    /\ processAlive
    /\ poolMutex = dtorThread
    /\ poolState = "dtorBusy"
    /\ r \in DtorBusyLeft
    /\ ~shouldStop[r]
    /\ runnerMutex[r] = dtorThread
    /\ signalStopLocked(r)
    /\ RunnerUnlock(r)
    /\ UNCHANGED <<poolVars, refVars, dtorVars, pc, job, wakeSignal, verdict, caught,
                   started, returned, callerVars, histVars, poolMutex, callerPc,
                   observerPc, observed>>

\* Line 164 on a busy runner.
OrderDtorSetBusy(r) ==
    /\ processAlive
    /\ poolMutex = dtorThread
    /\ poolState = "dtorBusy"
    /\ r \in DtorBusyLeft
    /\ shouldStop[r]
    /\ signalStopSet(r)
    /\ dtorSignalled' = dtorSignalled \cup {r}
    /\ UNCHANGED <<poolVars, refVars, dtorThread, dtorIdx, idleSignalled, pc, job,
                   shouldStop, verdict, caught, jobVars, callerVars, histVars>>
    /\ UNCHANGED lockVars

\* Lines 58-59: _busyRunners.clear(), and the destructor's lock goes out of
\* scope.
OrderDtorEnd ==
    /\ processAlive
    /\ poolMutex = dtorThread
    /\ poolState = "dtorBusy"
    /\ busyRunners \subseteq dtorSignalled
    /\ busyRunners' = {}
    /\ poolState' = "destroyed"
    /\ dtorThread' = NoThread
    /\ Unlock
    /\ UNCHANGED <<minThreadCount, maxThreadCount, idleRunners, queuedJobs, refVars,
                   dtorIdx, dtorSignalled, idleSignalled, runnerVars, jobVars, callerVars,
                   histVars, callerPc, observerPc, observed, runnerMutex>>

\* The steps a thread takes while it holds the pool mutex.
PoolHolderNext ==
    \/ OrderAddJobBody
    \/ OrderAddJobLockIdle
    \/ OrderAddJobStart
    \/ LockedAddJobThread
    \/ LockedAddJobLeave
    \/ \E r \in Runners : OrderReportLockSelf(r)
    \/ \E r \in Runners : OrderReportStart(r)
    \/ \E r \in Runners : OrderReportErase(r)
    \/ \E r \in Runners : LockedReportIdle(r)
    \/ \E r \in Runners : LockedReportLeave(r)
    \/ OrderDtorLockIdle
    \/ OrderDtorFlagIdle
    \/ OrderDtorSetIdle
    \/ OrderDtorClearIdle
    \/ \E r \in Runners : OrderDtorLockBusy(r)
    \/ \E r \in Runners : OrderDtorFlagBusy(r)
    \/ \E r \in Runners : OrderDtorSetBusy(r)
    \/ OrderDtorEnd

OrderNext ==
    \/ Construct
    \/ LockedAddJobEnter
    \/ OrderReleasePool
    \/ OrderDtorEnter
    \/ PoolHolderNext
    \/ \E r \in Runners : WakeWaitReturns(r)
    \/ \E r \in Runners : OrderWakeLock(r)
    \/ \E r \in Runners : OrderWakeCheck(r)
    \/ \E r \in Runners : RunJobBegin(r)
    \/ \E r \in Runners : RunJobEndWith(r, FALSE, TRUE) /\ UNCHANGED caught
    \/ \E r \in Runners : RunClearJobWith(r, FALSE, TRUE)
    \/ \E r \in Runners : RunToStrong(r)
    \/ \E r \in Runners : LockedReportEnter(r)
    \/ \E r \in Runners : RunReleasePool(r)

OrderSpec == Init /\ [][OrderNext]_vars

\* The steps that end with runner q's mutex released by its holder.
RunnerHolderNext(q) ==
    /\ \/ OrderWakeCheck(q)
       \/ OrderAddJobStart
       \/ OrderReportStart(q)
       \/ OrderDtorFlagIdle
       \/ OrderDtorFlagBusy(q)
    /\ runnerMutex'[q] = NoThread

\* The thread that holds the pool mutex is waiting for runner q's mutex.
PoolHolderWaitsFor(q) ==
    \/ callerPc = "locked" /\ idleRunners # <<>> /\ Head(idleRunners) = q
    \/ pc[q] = "finishLocked" /\ HasQueuedJob
    \/ /\ poolState = "dtorIdle" /\ poolMutex = dtorThread
       /\ dtorIdx <= Len(idleRunners) /\ DtorIdleTarget = q /\ ~shouldStop[q]
    \/ /\ poolState = "dtorBusy" /\ poolMutex = dtorThread
       /\ q \in DtorBusyLeft /\ ~shouldStop[q]

\* The runner mutexes thread t holds.
HeldRunnerMutexes(t) == {q \in Runners : runnerMutex[q] = t}

\* C38: locks are taken in the order pool mutex, then runner mutex.  A thread
\* that takes the pool mutex holds no runner mutex, so a runner enters
\* runnerFinishedJob holding none and whoever holds a runner mutex together
\* with the pool mutex took the pool mutex first.  No state is a deadlock:
\* the holder of a runner mutex can always go on to release it, and the
\* holder of the pool mutex can always take a step unless it waits for a
\* runner mutex that another thread holds.
C38_PoolLockBeforeRunnerLock ==
    /\ [][(poolMutex' # poolMutex /\ poolMutex' # NoThread)
             => HeldRunnerMutexes(poolMutex') = {}]_vars
    /\ [](\A r \in Runners :
             pc[r] \in {"run", "running", "clear", "report", "finish"}
                => HeldRunnerMutexes(r) = {})
    /\ [](\A q \in Runners : runnerMutex[q] # NoThread => ENABLED RunnerHolderNext(q))
    /\ [](poolMutex # NoThread =>
             \/ ENABLED PoolHolderNext
             \/ \E q \in Runners : /\ PoolHolderWaitsFor(q)
                                   /\ runnerMutex[q] \notin {NoThread, poolMutex})

\* C38 witness: the destructor holds the pool mutex and its signalStop waits
\* for the mutex of busy runner 1, which runner 1 holds for its wake-up
\* check; runner 1 needs no other lock to finish the check and release it.
C38_Witness ==
    /\ poolState = "dtorBusy"
    /\ poolMutex = dtorThread
    /\ 1 \in DtorBusyLeft
    /\ PoolHolderWaitsFor(1)
    /\ pc[1] = "wokenLocked"
    /\ runnerMutex[1] = 1
    /\ ~ENABLED PoolHolderNext

=============================================================================
